---- MODULE Spec2Model ----
(***************************************************************************)
(* Skill gomoku (src/src/App.tsx): the board engine, the three skills, the *)
(* match state machine and the room session protocol in which every        *)
(* participant keeps its own copy of the room and replaces it by whatever   *)
(* snapshot it receives.                                                    *)
(*                                                                          *)
(* A participant's state is the React state of its App component           *)
(* (gameState, roomCode, roomStatus, hostPlayer, guestPlayer, spectators)  *)
(* and its channel subscription.  Handlers run to completion one at a time, *)
(* so the *Ref mirrors always equal the state they mirror and are not      *)
(* modelled apart.  The narration (statusMessage) is modelled by the name   *)
(* of its template: the player names and counts interpolated into the text  *)
(* are left out.                                                            *)
(***************************************************************************)
EXTENDS Integers, Sequences, FiniteSets, TLC

\* ------------------------------------------------------------------ bounds

\* Messages that may wait in one sender-to-receiver queue.
MaxQueue == 2
\* Local actions (clicks, reloads) taken in one behaviour.
MaxSteps == 3
\* The same in the behaviours in which sessions join a room with a match going.
MaxJoinSteps == 2
\* The same in the behaviours that start from a line position.
MaxWinSteps == 1
\* The same in the behaviours in which the players click ready in the lobby.
MaxLobbySteps == 2
\* The same in the behaviours in which the players use their skills.
MaxSkillSteps == 3
\* The same in the behaviours that lead from the lobby into a match.
MaxRaceSteps == 7
\* The same in the behaviours in which each player holds a match of its own.
MaxTwoSteps == 3

\* ------------------------------------------------------------ basic types

BOARD_SIZE == 15

NULL == "null"

Player == {"black", "white"}

SkillId == {"sandstorm", "mountain", "rewind"}

OTHER_PLAYER(player) == IF player = "black" THEN "white" ELSE "black"

INITIAL_SKILL_STOCK == [s \in SkillId |-> 1]

buildSkillState == [p \in Player |-> INITIAL_SKILL_STOCK]

Idx == 0 .. (BOARD_SIZE - 1)

createEmptyBoard == [r \in Idx |-> [c \in Idx |-> NULL]]

\* The four line directions <<deltaRow, deltaCol>>.
DIRECTIONS == << <<1, 0>>, <<0, 1>>, <<1, 1>>, <<1, -1>> >>

\* ------------------------------------------------------------ board engine

RECURSIVE countFrom(_, _, _, _, _, _)
\* The while loop of countDirection, started at cell (r, c).
countFrom(board, r, c, player, deltaRow, deltaCol) ==
    IF r >= 0 /\ c >= 0 /\ r < BOARD_SIZE /\ c < BOARD_SIZE /\ board[r][c] = player
    THEN 1 + countFrom(board, r + deltaRow, c + deltaCol, player, deltaRow, deltaCol)
    ELSE 0

countDirection(board, row, col, player, deltaRow, deltaCol) ==
    countFrom(board, row + deltaRow, col + deltaCol, player, deltaRow, deltaCol)

\* checkWin that looks along the first three directions only.
checkWinThreeDirections(board, row, col, player) ==
    \E i \in 1 .. 3 :
        LET deltaRow == DIRECTIONS[i][1]
            deltaCol == DIRECTIONS[i][2]
            forward  == countDirection(board, row, col, player, deltaRow, deltaCol)
            backward == countDirection(board, row, col, player, -deltaRow, -deltaCol)
        IN  forward + backward + 1 >= 5

\* checkWin that asks for six in a line.
checkWinNeedsSix(board, row, col, player) ==
    \E i \in 1 .. Len(DIRECTIONS) :
        LET deltaRow == DIRECTIONS[i][1]
            deltaCol == DIRECTIONS[i][2]
            forward  == countDirection(board, row, col, player, deltaRow, deltaCol)
            backward == countDirection(board, row, col, player, -deltaRow, -deltaCol)
        IN  forward + backward + 1 >= 6

checkWin(board, row, col, player) ==
    \E i \in 1 .. Len(DIRECTIONS) :
        LET deltaRow == DIRECTIONS[i][1]
            deltaCol == DIRECTIONS[i][2]
            forward  == countDirection(board, row, col, player, deltaRow, deltaCol)
            backward == countDirection(board, row, col, player, -deltaRow, -deltaCol)
        IN  forward + backward + 1 >= 5

isBoardFull(board) == \A r \in Idx : \A c \in Idx : board[r][c] # NULL

\* freshGameState that never carries the scores over.
freshGameStateNoScores(previous, statusMessage) ==
    [ board         |-> createEmptyBoard,
      history       |-> << >>,
      currentPlayer |-> "black",
      status        |-> "playing",
      winner        |-> NULL,
      scores        |-> [p \in Player |-> 0],
      skillUses     |-> buildSkillState,
      pendingSkill  |-> NULL,
      statusMessage |-> statusMessage ]

\* previous is <<>> (no previous state given) or <<state>>.
freshGameState(previous, statusMessage) ==
    [ board         |-> createEmptyBoard,
      history       |-> << >>,
      currentPlayer |-> "black",
      status        |-> "playing",
      winner        |-> NULL,
      scores        |-> IF previous # << >> THEN previous[1].scores
                        ELSE [p \in Player |-> 0],
      skillUses     |-> buildSkillState,
      pendingSkill  |-> NULL,
      statusMessage |-> statusMessage ]

\* ------------------------------------------------------------------ skills

\* The cells of the 3x3 neighbourhood of (row, col) that lie on the board.
neighbourhood(row, col) ==
    { cell \in Idx \X Idx :
        /\ cell[1] - row \in -1 .. 1
        /\ cell[2] - col \in -1 .. 1 }

\* applySandstorm that takes a use although no stone is in reach.
applySandstormChargesMiss(state, row, col, player) ==
    LET usesLeft == state.skillUses[player]["sandstorm"]
        removed  == { cell \in neighbourhood(row, col) :
                        state.board[cell[1]][cell[2]] # NULL }
        updatedBoard ==
            [r \in Idx |-> [c \in Idx |->
                IF <<r, c>> \in removed THEN NULL ELSE state.board[r][c]]]
        nextHistory ==
            SelectSeq(state.history, LAMBDA move : <<move.row, move.col>> \notin removed)
    IN  IF usesLeft <= 0
        THEN [ next    |-> [state EXCEPT !.statusMessage = "sandstormUsedUp"],
               success |-> FALSE,
               removed |-> 0,
               message |-> "sandstormUsedUp" ]
        ELSE IF Cardinality(removed) = 0
        THEN [ next    |-> [state EXCEPT
                              !.skillUses[player]["sandstorm"] = usesLeft - 1,
                              !.statusMessage = "sandstormNothing"],
               success |-> FALSE,
               removed |-> 0,
               message |-> "sandstormNothing" ]
        ELSE [ next    |-> [state EXCEPT
                              !.board = updatedBoard,
                              !.history = nextHistory,
                              !.skillUses[player]["sandstorm"] = usesLeft - 1,
                              !.pendingSkill = NULL,
                              !.status = "playing",
                              !.winner = NULL,
                              !.statusMessage = "sandstormDone"],
               success |-> TRUE,
               removed |-> Cardinality(removed),
               message |-> "sandstormDone" ]

\* applySandstorm that blows away the opponent's stones only.
applySandstormSparesOwn(state, row, col, player) ==
    LET usesLeft == state.skillUses[player]["sandstorm"]
        removed  == { cell \in neighbourhood(row, col) :
                        /\ state.board[cell[1]][cell[2]] # NULL
                        /\ state.board[cell[1]][cell[2]] # player }
        updatedBoard ==
            [r \in Idx |-> [c \in Idx |->
                IF <<r, c>> \in removed THEN NULL ELSE state.board[r][c]]]
        nextHistory ==
            SelectSeq(state.history, LAMBDA move : <<move.row, move.col>> \notin removed)
    IN  IF usesLeft <= 0
        THEN [ next    |-> [state EXCEPT !.statusMessage = "sandstormUsedUp"],
               success |-> FALSE,
               removed |-> 0,
               message |-> "sandstormUsedUp" ]
        ELSE IF Cardinality(removed) = 0
        THEN [ next    |-> [state EXCEPT !.statusMessage = "sandstormNothing"],
               success |-> FALSE,
               removed |-> 0,
               message |-> "sandstormNothing" ]
        ELSE [ next    |-> [state EXCEPT
                              !.board = updatedBoard,
                              !.history = nextHistory,
                              !.skillUses[player]["sandstorm"] = usesLeft - 1,
                              !.pendingSkill = NULL,
                              !.status = "playing",
                              !.winner = NULL,
                              !.statusMessage = "sandstormDone"],
               success |-> TRUE,
               removed |-> Cardinality(removed),
               message |-> "sandstormDone" ]

\* applySandstorm whose miss puts the skill away.
applySandstormMissDisarms(state, row, col, player) ==
    LET usesLeft == state.skillUses[player]["sandstorm"]
        removed  == { cell \in neighbourhood(row, col) :
                        state.board[cell[1]][cell[2]] # NULL }
        updatedBoard ==
            [r \in Idx |-> [c \in Idx |->
                IF <<r, c>> \in removed THEN NULL ELSE state.board[r][c]]]
        nextHistory ==
            SelectSeq(state.history, LAMBDA move : <<move.row, move.col>> \notin removed)
    IN  IF usesLeft <= 0
        THEN [ next    |-> [state EXCEPT !.statusMessage = "sandstormUsedUp"],
               success |-> FALSE,
               removed |-> 0,
               message |-> "sandstormUsedUp" ]
        ELSE IF Cardinality(removed) = 0
        THEN [ next    |-> [state EXCEPT !.pendingSkill = NULL,
                                         !.statusMessage = "sandstormNothing"],
               success |-> FALSE,
               removed |-> 0,
               message |-> "sandstormNothing" ]
        ELSE [ next    |-> [state EXCEPT
                              !.board = updatedBoard,
                              !.history = nextHistory,
                              !.skillUses[player]["sandstorm"] = usesLeft - 1,
                              !.pendingSkill = NULL,
                              !.status = "playing",
                              !.winner = NULL,
                              !.statusMessage = "sandstormDone"],
               success |-> TRUE,
               removed |-> Cardinality(removed),
               message |-> "sandstormDone" ]

applySandstorm(state, row, col, player) ==
    LET usesLeft == state.skillUses[player]["sandstorm"]
        removed  == { cell \in neighbourhood(row, col) :
                        state.board[cell[1]][cell[2]] # NULL }
        updatedBoard ==
            [r \in Idx |-> [c \in Idx |->
                IF <<r, c>> \in removed THEN NULL ELSE state.board[r][c]]]
        nextHistory ==
            SelectSeq(state.history, LAMBDA move : <<move.row, move.col>> \notin removed)
    IN  IF usesLeft <= 0
        THEN [ next    |-> [state EXCEPT !.statusMessage = "sandstormUsedUp"],
               success |-> FALSE,
               removed |-> 0,
               message |-> "sandstormUsedUp" ]
        ELSE IF Cardinality(removed) = 0
        THEN [ next    |-> [state EXCEPT !.statusMessage = "sandstormNothing"],
               success |-> FALSE,
               removed |-> 0,
               message |-> "sandstormNothing" ]
        ELSE [ next    |-> [state EXCEPT
                              !.board = updatedBoard,
                              !.history = nextHistory,
                              !.skillUses[player]["sandstorm"] = usesLeft - 1,
                              !.pendingSkill = NULL,
                              !.status = "playing",
                              !.winner = NULL,
                              !.statusMessage = "sandstormDone"],
               success |-> TRUE,
               removed |-> Cardinality(removed),
               message |-> "sandstormDone" ]

\* applyMountain that does not look whose move the last one is.
applyMountainAnyLastMove(state, player) ==
    LET usesLeft == state.skillUses[player]["mountain"]
        n        == Len(state.history)
    IN  IF usesLeft <= 0
        THEN [ next    |-> [state EXCEPT !.statusMessage = "mountainUsedUp"],
               success |-> FALSE,
               message |-> "mountainUsedUp" ]
        ELSE IF n = 0
        THEN [ next    |-> [state EXCEPT !.statusMessage = "mountainNoTarget"],
               success |-> FALSE,
               message |-> "mountainNoTarget" ]
        ELSE LET lastMove == state.history[n]
             IN [ next    |-> [state EXCEPT
                                 !.board[lastMove.row][lastMove.col] = NULL,
                                 !.history = SubSeq(state.history, 1, n - 1),
                                 !.skillUses[player]["mountain"] = usesLeft - 1,
                                 !.pendingSkill = NULL,
                                 !.status = "playing",
                                 !.winner = NULL,
                                 !.statusMessage = "mountainDone"],
                  success |-> TRUE,
                  message |-> "mountainDone" ]

\* applyMountain that hands the turn back to the player whose move it took.
applyMountainPassesTurn(state, player) ==
    LET usesLeft == state.skillUses[player]["mountain"]
        n        == Len(state.history)
    IN  IF usesLeft <= 0
        THEN [ next    |-> [state EXCEPT !.statusMessage = "mountainUsedUp"],
               success |-> FALSE,
               message |-> "mountainUsedUp" ]
        ELSE IF n = 0 \/ state.history[n].player = player
        THEN [ next    |-> [state EXCEPT !.statusMessage = "mountainNoTarget"],
               success |-> FALSE,
               message |-> "mountainNoTarget" ]
        ELSE LET lastMove == state.history[n]
             IN [ next    |-> [state EXCEPT
                                 !.board[lastMove.row][lastMove.col] = NULL,
                                 !.history = SubSeq(state.history, 1, n - 1),
                                 !.skillUses[player]["mountain"] = usesLeft - 1,
                                 !.currentPlayer = lastMove.player,
                                 !.pendingSkill = NULL,
                                 !.status = "playing",
                                 !.winner = NULL,
                                 !.statusMessage = "mountainDone"],
                  success |-> TRUE,
                  message |-> "mountainDone" ]

\* applyMountain that takes the stone off the board and leaves the history.
applyMountainKeepsHistory(state, player) ==
    LET usesLeft == state.skillUses[player]["mountain"]
        n        == Len(state.history)
    IN  IF usesLeft <= 0
        THEN [ next    |-> [state EXCEPT !.statusMessage = "mountainUsedUp"],
               success |-> FALSE,
               message |-> "mountainUsedUp" ]
        ELSE IF n = 0 \/ state.history[n].player = player
        THEN [ next    |-> [state EXCEPT !.statusMessage = "mountainNoTarget"],
               success |-> FALSE,
               message |-> "mountainNoTarget" ]
        ELSE LET lastMove == state.history[n]
             IN [ next    |-> [state EXCEPT
                                 !.board[lastMove.row][lastMove.col] = NULL,
                                 !.skillUses[player]["mountain"] = usesLeft - 1,
                                 !.pendingSkill = NULL,
                                 !.status = "playing",
                                 !.winner = NULL,
                                 !.statusMessage = "mountainDone"],
                  success |-> TRUE,
                  message |-> "mountainDone" ]

applyMountain(state, player) ==
    LET usesLeft == state.skillUses[player]["mountain"]
        n        == Len(state.history)
    IN  IF usesLeft <= 0
        THEN [ next    |-> [state EXCEPT !.statusMessage = "mountainUsedUp"],
               success |-> FALSE,
               message |-> "mountainUsedUp" ]
        ELSE IF n = 0 \/ state.history[n].player = player
        THEN [ next    |-> [state EXCEPT !.statusMessage = "mountainNoTarget"],
               success |-> FALSE,
               message |-> "mountainNoTarget" ]
        ELSE LET lastMove == state.history[n]
             IN [ next    |-> [state EXCEPT
                                 !.board[lastMove.row][lastMove.col] = NULL,
                                 !.history = SubSeq(state.history, 1, n - 1),
                                 !.skillUses[player]["mountain"] = usesLeft - 1,
                                 !.pendingSkill = NULL,
                                 !.status = "playing",
                                 !.winner = NULL,
                                 !.statusMessage = "mountainDone"],
                  success |-> TRUE,
                  message |-> "mountainDone" ]

\* applyRewind that looks only at the last move, not at the one before it.
applyRewindChecksLastOnly(state, player) ==
    LET usesLeft == state.skillUses[player]["rewind"]
        n        == Len(state.history)
    IN  IF usesLeft <= 0
        THEN [ next    |-> [state EXCEPT !.statusMessage = "rewindUsedUp"],
               success |-> FALSE,
               message |-> "rewindUsedUp" ]
        ELSE IF n < 2
        THEN [ next    |-> [state EXCEPT !.statusMessage = "rewindTooEarly"],
               success |-> FALSE,
               message |-> "rewindTooEarly" ]
        ELSE LET lastOpponent == state.history[n]
                 lastSelf     == state.history[n - 1]
             IN IF lastOpponent.player = player
                THEN [ next    |-> [state EXCEPT !.statusMessage = "rewindBlocked"],
                       success |-> FALSE,
                       message |-> "rewindBlocked" ]
                ELSE [ next    |-> [state EXCEPT
                                      !.board =
                                          [r \in Idx |-> [c \in Idx |->
                                              IF \/ (r = lastOpponent.row /\ c = lastOpponent.col)
                                                 \/ (r = lastSelf.row /\ c = lastSelf.col)
                                              THEN NULL ELSE state.board[r][c]]],
                                      !.history = SubSeq(state.history, 1, n - 2),
                                      !.skillUses[player]["rewind"] = usesLeft - 1,
                                      !.pendingSkill = NULL,
                                      !.status = "playing",
                                      !.winner = NULL,
                                      !.statusMessage = "rewindDone"],
                       success |-> TRUE,
                       message |-> "rewindDone" ]

applyRewind(state, player) ==
    LET usesLeft == state.skillUses[player]["rewind"]
        n        == Len(state.history)
    IN  IF usesLeft <= 0
        THEN [ next    |-> [state EXCEPT !.statusMessage = "rewindUsedUp"],
               success |-> FALSE,
               message |-> "rewindUsedUp" ]
        ELSE IF n < 2
        THEN [ next    |-> [state EXCEPT !.statusMessage = "rewindTooEarly"],
               success |-> FALSE,
               message |-> "rewindTooEarly" ]
        ELSE LET lastOpponent == state.history[n]
                 lastSelf     == state.history[n - 1]
             IN IF lastOpponent.player = player \/ lastSelf.player # player
                THEN [ next    |-> [state EXCEPT !.statusMessage = "rewindBlocked"],
                       success |-> FALSE,
                       message |-> "rewindBlocked" ]
                ELSE [ next    |-> [state EXCEPT
                                      !.board =
                                          [r \in Idx |-> [c \in Idx |->
                                              IF \/ (r = lastOpponent.row /\ c = lastOpponent.col)
                                                 \/ (r = lastSelf.row /\ c = lastSelf.col)
                                              THEN NULL ELSE state.board[r][c]]],
                                      !.history = SubSeq(state.history, 1, n - 2),
                                      !.skillUses[player]["rewind"] = usesLeft - 1,
                                      !.pendingSkill = NULL,
                                      !.status = "playing",
                                      !.winner = NULL,
                                      !.statusMessage = "rewindDone"],
                       success |-> TRUE,
                       message |-> "rewindDone" ]

\* ------------------------------------------------------------- placement

\* moveOccupied that passes the turn.
moveOccupiedPassesTurn(state) ==
    [ next    |-> [state EXCEPT !.statusMessage = "occupied",
                                !.currentPlayer = OTHER_PLAYER(state.currentPlayer)],
      success |-> FALSE,
      outcome |-> "move",
      message |-> "occupied" ]

\* The early return of applyMove on an occupied cell.
moveOccupied(state) ==
    [ next    |-> [state EXCEPT !.statusMessage = "occupied"],
      success |-> FALSE,
      outcome |-> "move",
      message |-> "occupied" ]

\* baseState of applyMove: the stone placed, the move appended.
baseState(state, row, col, player) ==
    [state EXCEPT
       !.board = [state.board EXCEPT ![row][col] = player],
       !.history = Append(state.history, [row |-> row, col |-> col, player |-> player]),
       !.statusMessage = "moveSpotlight",
       !.pendingSkill = NULL]

\* moveWon that passes the turn.
moveWonPassesTurn(base, player) ==
    [ next    |-> [base EXCEPT
                     !.currentPlayer = OTHER_PLAYER(player),
                     !.status = "won",
                     !.winner = player,
                     !.scores[player] = base.scores[player] + 1,
                     !.statusMessage = "moveWin"],
      success |-> TRUE,
      outcome |-> "win",
      message |-> "moveWin" ]

\* The three ways applyMove ends after the stone is placed.
moveWon(base, player) ==
    [ next    |-> [base EXCEPT
                     !.status = "won",
                     !.winner = player,
                     !.scores[player] = base.scores[player] + 1,
                     !.statusMessage = "moveWin"],
      success |-> TRUE,
      outcome |-> "win",
      message |-> "moveWin" ]

moveDraw(base) ==
    [ next    |-> [base EXCEPT !.status = "draw", !.statusMessage = "moveDraw"],
      success |-> TRUE,
      outcome |-> "draw",
      message |-> "moveDraw" ]

\* moveOn that leaves the turn with the player who moved.
moveOnKeepsTurn(base, player) ==
    [ next    |-> [base EXCEPT
                     !.status = "playing",
                     !.winner = NULL,
                     !.statusMessage = "moveNext"],
      success |-> TRUE,
      outcome |-> "move",
      message |-> "moveNext" ]

moveOn(base, player) ==
    [ next    |-> [base EXCEPT
                     !.currentPlayer = OTHER_PLAYER(player),
                     !.status = "playing",
                     !.winner = NULL,
                     !.statusMessage = "moveNext"],
      success |-> TRUE,
      outcome |-> "move",
      message |-> "moveNext" ]

\* applyMove that looks for a full board before it looks for a win.
applyMoveDrawFirst(state, row, col, player) ==
    LET base == baseState(state, row, col, player)
    IN  IF state.board[row][col] # NULL THEN moveOccupied(state)
        ELSE IF isBoardFull(base.board) THEN moveDraw(base)
        ELSE IF checkWin(base.board, row, col, player) THEN moveWon(base, player)
        ELSE moveOn(base, player)

applyMove(state, row, col, player) ==
    LET base == baseState(state, row, col, player)
    IN  IF state.board[row][col] # NULL THEN moveOccupied(state)
        ELSE IF checkWin(base.board, row, col, player) THEN moveWon(base, player)
        ELSE IF isBoardFull(base.board) THEN moveDraw(base)
        ELSE moveOn(base, player)

\* ------------------------------------------------------- players, snapshots

\* The session ids of the browser tabs that take part.
Ids == {"u1", "u2", "u3"}

\* The display names randomFunnyName may return.
Names == {"Ann", "Bob"}

\* The invite code of the one room of the model.
Code == "R7kQ"

\* null for a PlayerMeta, and undefined for a PlayerSnapshot.
NoPlayer == [id |-> NULL, name |-> NULL, color |-> NULL, role |-> NULL, ready |-> FALSE]

NoPlayerSnapshot == [id |-> NULL, name |-> NULL, color |-> NULL, ready |-> FALSE]

snapshotToPlayerMeta(snapshot, role) ==
    [id |-> snapshot.id, name |-> snapshot.name, color |-> snapshot.color,
     role |-> role, ready |-> snapshot.ready]

playerSnapshot(meta) ==
    IF meta = NoPlayer THEN NoPlayerSnapshot
    ELSE [id |-> meta.id, name |-> meta.name, color |-> meta.color, ready |-> meta.ready]

\* The state of a freshly constructed App component (useState initial values).
InitialApp ==
    [ gameState   |-> freshGameState(<< >>, "welcome"),
      roomCode    |-> NULL,
      roomStatus  |-> "idle",
      hostPlayer  |-> NoPlayer,
      guestPlayer |-> NoPlayer,
      spectators  |-> << >>,
      channelRef  |-> FALSE ]

\* localPlayer of the component of session me in state s.
localPlayer(me, s) ==
    IF s.hostPlayer.id = me THEN s.hostPlayer
    ELSE IF s.guestPlayer.id = me THEN s.guestPlayer
    ELSE NoPlayer

\* A handler's result: the component's next state and the messages it sends.
Result(state, out) == [state |-> state, out |-> out]

\* The messages broadcastSnapshot sends from state s, the overrides resolved.
broadcastSnapshot(s, host, guest, status, spectatorList, game) ==
    IF ~s.channelRef \/ s.roomCode = NULL \/ host = NoPlayer
    THEN << >>
    ELSE << [ type    |-> "snapshot",
              payload |-> [ room       |-> [code |-> s.roomCode, status |-> status],
                            players    |-> [host  |-> playerSnapshot(host),
                                            guest |-> playerSnapshot(guest)],
                            spectators |-> spectatorList,
                            game       |-> game ] ] >>

\* applySnapshot that keeps the room status the component has.
applySnapshotKeepsRoomStatus(s, payload) ==
    [s EXCEPT
       !.roomCode    = payload.room.code,
       !.hostPlayer  = snapshotToPlayerMeta(payload.players.host, "host"),
       !.guestPlayer = IF payload.players.guest # NoPlayerSnapshot
                       THEN snapshotToPlayerMeta(payload.players.guest, "guest")
                       ELSE NoPlayer,
       !.spectators  = payload.spectators,
       !.gameState   = payload.game]

applySnapshot(s, payload) ==
    [s EXCEPT
       !.roomCode    = payload.room.code,
       !.roomStatus  = payload.room.status,
       !.hostPlayer  = snapshotToPlayerMeta(payload.players.host, "host"),
       !.guestPlayer = IF payload.players.guest # NoPlayerSnapshot
                       THEN snapshotToPlayerMeta(payload.players.guest, "guest")
                       ELSE NoPlayer,
       !.spectators  = payload.spectators,
       !.gameState   = payload.game]

\* ------------------------------------------------------------ room handlers

\* joinAsSpectator that appends the requester whether or not it is listed.
joinAsSpectatorAlwaysAppends(s, payload) ==
    LET nextSpectators ==
            Append(s.spectators, [id |-> payload.playerId, name |-> payload.name])
    IN  Result([s EXCEPT !.spectators = nextSpectators],
               broadcastSnapshot(s, s.hostPlayer, s.guestPlayer, s.roomStatus,
                                 nextSpectators, s.gameState))

\* handleJoinRequest while a guest of another identity is seated: the requester
\* is recorded, or its name refreshed, as a spectator.
joinAsSpectator(s, payload) ==
    LET existingSpectator == \E i \in 1 .. Len(s.spectators) :
                                 s.spectators[i].id = payload.playerId
        nextSpectators ==
            IF existingSpectator
            THEN [i \in 1 .. Len(s.spectators) |->
                     IF s.spectators[i].id = payload.playerId
                     THEN [s.spectators[i] EXCEPT !.name = payload.name]
                     ELSE s.spectators[i]]
            ELSE Append(s.spectators, [id |-> payload.playerId, name |-> payload.name])
    IN  Result([s EXCEPT !.spectators = nextSpectators],
               broadcastSnapshot(s, s.hostPlayer, s.guestPlayer, s.roomStatus,
                                 nextSpectators, s.gameState))

\* joinAsGuest that leaves the host's ready flag as it is.
joinAsGuestKeepsHostReady(s, payload) ==
    LET host          == s.hostPlayer
        currentGuest  == s.guestPlayer
        assignedColor == IF host.color = "black" THEN "white" ELSE "black"
        guest         ==
            IF currentGuest # NoPlayer /\ currentGuest.id = payload.playerId
            THEN [currentGuest EXCEPT !.name = payload.name, !.ready = FALSE]
            ELSE [id |-> payload.playerId, name |-> payload.name,
                  color |-> assignedColor, role |-> "guest", ready |-> FALSE]
        nextGame      == freshGameState(<< >>, "waitingForGuest")
        updatedSpectators ==
            SelectSeq(s.spectators, LAMBDA spectator : spectator.id # payload.playerId)
    IN  Result([s EXCEPT
                  !.guestPlayer = guest,
                  !.roomStatus  = "lobby",
                  !.gameState   = nextGame,
                  !.spectators  = updatedSpectators],
               broadcastSnapshot(s, host, guest, "lobby", updatedSpectators, nextGame))

\* joinAsGuest that gives a new guest the colour of the host.
joinAsGuestSameColour(s, payload) ==
    LET host          == s.hostPlayer
        currentGuest  == s.guestPlayer
        updatedHost   == [host EXCEPT !.ready = FALSE]
        guest         ==
            IF currentGuest # NoPlayer /\ currentGuest.id = payload.playerId
            THEN [currentGuest EXCEPT !.name = payload.name, !.ready = FALSE]
            ELSE [id |-> payload.playerId, name |-> payload.name,
                  color |-> host.color, role |-> "guest", ready |-> FALSE]
        nextGame      == freshGameState(<< >>, "waitingForGuest")
        updatedSpectators ==
            SelectSeq(s.spectators, LAMBDA spectator : spectator.id # payload.playerId)
    IN  Result([s EXCEPT
                  !.hostPlayer  = updatedHost,
                  !.guestPlayer = guest,
                  !.roomStatus  = "lobby",
                  !.gameState   = nextGame,
                  !.spectators  = updatedSpectators],
               broadcastSnapshot(s, updatedHost, guest, "lobby",
                                 updatedSpectators, nextGame))

\* joinAsGuest that seats every new guest as white.
joinAsGuestAlwaysWhite(s, payload) ==
    LET host          == s.hostPlayer
        currentGuest  == s.guestPlayer
        updatedHost   == [host EXCEPT !.ready = FALSE]
        guest         ==
            IF currentGuest # NoPlayer /\ currentGuest.id = payload.playerId
            THEN [currentGuest EXCEPT !.name = payload.name, !.ready = FALSE]
            ELSE [id |-> payload.playerId, name |-> payload.name,
                  color |-> "white", role |-> "guest", ready |-> FALSE]
        nextGame      == freshGameState(<< >>, "waitingForGuest")
        updatedSpectators ==
            SelectSeq(s.spectators, LAMBDA spectator : spectator.id # payload.playerId)
    IN  Result([s EXCEPT
                  !.hostPlayer  = updatedHost,
                  !.guestPlayer = guest,
                  !.roomStatus  = "lobby",
                  !.gameState   = nextGame,
                  !.spectators  = updatedSpectators],
               broadcastSnapshot(s, updatedHost, guest, "lobby",
                                 updatedSpectators, nextGame))

\* handleJoinRequest otherwise: the requester takes, or keeps, the guest seat.
joinAsGuest(s, payload) ==
    LET host          == s.hostPlayer
        currentGuest  == s.guestPlayer
        updatedHost   == [host EXCEPT !.ready = FALSE]
        assignedColor == IF host.color = "black" THEN "white" ELSE "black"
        guest         ==
            IF currentGuest # NoPlayer /\ currentGuest.id = payload.playerId
            THEN [currentGuest EXCEPT !.name = payload.name, !.ready = FALSE]
            ELSE [id |-> payload.playerId, name |-> payload.name,
                  color |-> assignedColor, role |-> "guest", ready |-> FALSE]
        nextGame      == freshGameState(<< >>, "waitingForGuest")
        updatedSpectators ==
            SelectSeq(s.spectators, LAMBDA spectator : spectator.id # payload.playerId)
    IN  Result([s EXCEPT
                  !.hostPlayer  = updatedHost,
                  !.guestPlayer = guest,
                  !.roomStatus  = "lobby",
                  !.gameState   = nextGame,
                  !.spectators  = updatedSpectators],
               broadcastSnapshot(s, updatedHost, guest, "lobby",
                                 updatedSpectators, nextGame))

\* handleJoinRequest that lists whoever asks while the guest seat is taken, the
\* seated guest included.
handleJoinRequestListsGuest(me, s, payload) ==
    IF me # s.hostPlayer.id THEN Result(s, << >>)
    ELSE IF s.guestPlayer # NoPlayer
    THEN joinAsSpectator(s, payload)
    ELSE joinAsGuest(s, payload)

\* handleJoinRequest that gives the guest seat to whoever asks.
handleJoinRequestDisplaces(me, s, payload) ==
    IF me # s.hostPlayer.id THEN Result(s, << >>)
    ELSE joinAsGuest(s, payload)

handleJoinRequest(me, s, payload) ==
    IF me # s.hostPlayer.id THEN Result(s, << >>)
    ELSE IF s.guestPlayer # NoPlayer /\ s.guestPlayer.id # payload.playerId
    THEN joinAsSpectator(s, payload)
    ELSE joinAsGuest(s, payload)

\* A state-request handler that answers whoever receives the request.
handleStateRequestAnyone(me, s, payload) ==
    IF payload.playerId # NULL
    THEN Result(s, broadcastSnapshot(s, s.hostPlayer, s.guestPlayer, s.roomStatus,
                                     s.spectators, s.gameState))
    ELSE Result(s, << >>)

\* The state-request handler installed by subscribeToRoom.
handleStateRequest(me, s, payload) ==
    IF me = s.hostPlayer.id /\ payload.playerId # NULL
    THEN Result(s, broadcastSnapshot(s, s.hostPlayer, s.guestPlayer, s.roomStatus,
                                     s.spectators, s.gameState))
    ELSE Result(s, << >>)

handleCreateRoom(me, s, color, name) ==
    LET hostMeta == [id |-> me, name |-> name, color |-> color,
                     role |-> "host", ready |-> FALSE]
        created  == [s EXCEPT
                       !.hostPlayer  = hostMeta,
                       !.guestPlayer = NoPlayer,
                       !.roomCode    = Code,
                       !.roomStatus  = "lobby",
                       !.gameState   = freshGameState(<< >>, "roomCreated"),
                       !.spectators  = << >>,
                       !.channelRef  = TRUE]
    IN  Result(created,
               broadcastSnapshot(created, hostMeta, NoPlayer, "lobby",
                                 created.spectators, created.gameState))

handleJoinRoom(me, s, name) ==
    Result([s EXCEPT
              !.roomCode   = Code,
              !.roomStatus = "lobby",
              !.gameState  = [s.gameState EXCEPT !.statusMessage = "joining"],
              !.spectators = << >>,
              !.channelRef = TRUE],
           << [type |-> "join-request", payload |-> [playerId |-> me, name |-> name]],
              [type |-> "state-request", payload |-> [playerId |-> me]] >>)

\* toggleReady that also runs while the match is being played.
toggleReadyAnytime(me, s) ==
    LET local        == localPlayer(me, s)
        updatedLocal == [local EXCEPT !.ready = ~local.ready]
        host1        == IF updatedLocal.role = "host" THEN updatedLocal ELSE s.hostPlayer
        guest1       == IF updatedLocal.role = "host" THEN s.guestPlayer ELSE updatedLocal
        bothReady    == host1.ready /\ guest1.ready
        nextGame     ==
            IF bothReady
            THEN freshGameState(<< s.gameState >>, "blackStarts")
            ELSE [s.gameState EXCEPT
                    !.statusMessage = IF host1.ready \/ guest1.ready
                                      THEN "oneReady" ELSE "noneReady"]
        nextRoomStatus == IF bothReady THEN "playing" ELSE "lobby"
        updatedHost  == IF bothReady THEN [host1 EXCEPT !.ready = FALSE] ELSE host1
        updatedGuest == IF bothReady THEN [guest1 EXCEPT !.ready = FALSE] ELSE guest1
    IN  IF local = NoPlayer
        THEN Result(s, << >>)
        ELSE Result([s EXCEPT
                       !.hostPlayer  = updatedHost,
                       !.guestPlayer = updatedGuest,
                       !.roomStatus  = nextRoomStatus,
                       !.gameState   = nextGame],
                    broadcastSnapshot(s, updatedHost, updatedGuest, nextRoomStatus,
                                      s.spectators, nextGame))

\* toggleReady that starts the match and leaves both ready flags set.
toggleReadyKeepsFlags(me, s) ==
    LET local        == localPlayer(me, s)
        updatedLocal == [local EXCEPT !.ready = ~local.ready]
        host1        == IF updatedLocal.role = "host" THEN updatedLocal ELSE s.hostPlayer
        guest1       == IF updatedLocal.role = "host" THEN s.guestPlayer ELSE updatedLocal
        bothReady    == host1.ready /\ guest1.ready
        nextGame     ==
            IF bothReady
            THEN freshGameState(<< s.gameState >>, "blackStarts")
            ELSE [s.gameState EXCEPT
                    !.statusMessage = IF host1.ready \/ guest1.ready
                                      THEN "oneReady" ELSE "noneReady"]
        nextRoomStatus == IF bothReady THEN "playing" ELSE "lobby"
    IN  IF local = NoPlayer
        THEN Result(s, << >>)
        ELSE IF s.roomStatus = "playing" /\ s.gameState.status = "playing"
        THEN Result(s, << >>)
        ELSE Result([s EXCEPT
                       !.hostPlayer  = host1,
                       !.guestPlayer = guest1,
                       !.roomStatus  = nextRoomStatus,
                       !.gameState   = nextGame],
                    broadcastSnapshot(s, host1, guest1, nextRoomStatus,
                                      s.spectators, nextGame))

toggleReady(me, s) ==
    LET local        == localPlayer(me, s)
        updatedLocal == [local EXCEPT !.ready = ~local.ready]
        host1        == IF updatedLocal.role = "host" THEN updatedLocal ELSE s.hostPlayer
        guest1       == IF updatedLocal.role = "host" THEN s.guestPlayer ELSE updatedLocal
        bothReady    == host1.ready /\ guest1.ready
        nextGame     ==
            IF bothReady
            THEN freshGameState(<< s.gameState >>, "blackStarts")
            ELSE [s.gameState EXCEPT
                    !.statusMessage = IF host1.ready \/ guest1.ready
                                      THEN "oneReady" ELSE "noneReady"]
        nextRoomStatus == IF bothReady THEN "playing" ELSE "lobby"
        updatedHost  == IF bothReady THEN [host1 EXCEPT !.ready = FALSE] ELSE host1
        updatedGuest == IF bothReady THEN [guest1 EXCEPT !.ready = FALSE] ELSE guest1
    IN  IF local = NoPlayer
        THEN Result(s, << >>)
        ELSE IF s.roomStatus = "playing" /\ s.gameState.status = "playing"
        THEN Result(s, << >>)
        ELSE Result([s EXCEPT
                       !.hostPlayer  = updatedHost,
                       !.guestPlayer = updatedGuest,
                       !.roomStatus  = nextRoomStatus,
                       !.gameState   = nextGame],
                    broadcastSnapshot(s, updatedHost, updatedGuest, nextRoomStatus,
                                      s.spectators, nextGame))

\* handleResetGame that leaves the ready flags as they are.
handleResetGameKeepsReady(me, s) ==
    LET nextGame == freshGameState(<< s.gameState >>, "nextRound")
    IN  Result([s EXCEPT
                  !.gameState  = nextGame,
                  !.roomStatus = "lobby"],
               broadcastSnapshot(s, s.hostPlayer, s.guestPlayer, "lobby",
                                 s.spectators, nextGame))

handleResetGame(me, s) ==
    LET nextGame     == freshGameState(<< s.gameState >>, "nextRound")
        updatedHost  == IF s.hostPlayer # NoPlayer
                        THEN [s.hostPlayer EXCEPT !.ready = FALSE] ELSE NoPlayer
        updatedGuest == IF s.guestPlayer # NoPlayer
                        THEN [s.guestPlayer EXCEPT !.ready = FALSE] ELSE NoPlayer
    IN  Result([s EXCEPT
                  !.gameState   = nextGame,
                  !.hostPlayer  = updatedHost,
                  !.guestPlayer = updatedGuest,
                  !.roomStatus  = "lobby"],
               broadcastSnapshot(s, updatedHost, updatedGuest, "lobby",
                                 s.spectators, nextGame))

\* handleCellClick that leaves the room playing after the last stone.
handleCellClickKeepsRoom(me, s, row, col) ==
    LET local == localPlayer(me, s)
    IN  IF s.roomStatus # "playing" THEN Result(s, << >>)
        ELSE IF s.gameState.status # "playing" THEN Result(s, << >>)
        ELSE IF local = NoPlayer THEN Result(s, << >>)
        ELSE IF local.color # s.gameState.currentPlayer THEN Result(s, << >>)
        ELSE IF s.gameState.pendingSkill = "sandstorm"
        THEN LET result == applySandstorm(s.gameState, row, col, local.color)
             IN  Result([s EXCEPT !.gameState = result.next],
                        IF result.success
                        THEN broadcastSnapshot(s, s.hostPlayer, s.guestPlayer,
                                               s.roomStatus, s.spectators, result.next)
                        ELSE << >>)
        ELSE LET result == applyMove(s.gameState, row, col, local.color)
             IN  IF ~result.success
                 THEN Result([s EXCEPT !.gameState = result.next], << >>)
                 ELSE Result([s EXCEPT !.gameState = result.next],
                             broadcastSnapshot(s, s.hostPlayer, s.guestPlayer,
                                               s.roomStatus, s.spectators, result.next))

\* handleCellClick that places a stone whether or not a skill awaits its target.
handleCellClickIgnoresArmed(me, s, row, col) ==
    LET local == localPlayer(me, s)
    IN  IF s.roomStatus # "playing" THEN Result(s, << >>)
        ELSE IF s.gameState.status # "playing" THEN Result(s, << >>)
        ELSE IF local = NoPlayer THEN Result(s, << >>)
        ELSE IF local.color # s.gameState.currentPlayer THEN Result(s, << >>)
        ELSE LET result == applyMove(s.gameState, row, col, local.color)
                 nextRoomStatus ==
                     IF result.outcome = "win" \/ result.outcome = "draw"
                     THEN "finished" ELSE s.roomStatus
             IN  IF ~result.success
                 THEN Result([s EXCEPT !.gameState = result.next], << >>)
                 ELSE Result([s EXCEPT !.gameState = result.next,
                                       !.roomStatus = nextRoomStatus],
                             broadcastSnapshot(s, s.hostPlayer, s.guestPlayer,
                                               nextRoomStatus, s.spectators, result.next))

\* handleCellClick that does not ask whose turn it is.
handleCellClickAnyTurn(me, s, row, col) ==
    LET local == localPlayer(me, s)
    IN  IF s.roomStatus # "playing" THEN Result(s, << >>)
        ELSE IF s.gameState.status # "playing" THEN Result(s, << >>)
        ELSE IF local = NoPlayer THEN Result(s, << >>)
        ELSE IF s.gameState.pendingSkill = "sandstorm"
        THEN LET result == applySandstorm(s.gameState, row, col, local.color)
             IN  Result([s EXCEPT !.gameState = result.next],
                        IF result.success
                        THEN broadcastSnapshot(s, s.hostPlayer, s.guestPlayer,
                                               s.roomStatus, s.spectators, result.next)
                        ELSE << >>)
        ELSE LET result == applyMove(s.gameState, row, col, local.color)
                 nextRoomStatus ==
                     IF result.outcome = "win" \/ result.outcome = "draw"
                     THEN "finished" ELSE s.roomStatus
             IN  IF ~result.success
                 THEN Result([s EXCEPT !.gameState = result.next], << >>)
                 ELSE Result([s EXCEPT !.gameState = result.next,
                                       !.roomStatus = nextRoomStatus],
                             broadcastSnapshot(s, s.hostPlayer, s.guestPlayer,
                                               nextRoomStatus, s.spectators, result.next))

handleCellClick(me, s, row, col) ==
    LET local == localPlayer(me, s)
    IN  IF s.roomStatus # "playing" THEN Result(s, << >>)
        ELSE IF s.gameState.status # "playing" THEN Result(s, << >>)
        ELSE IF local = NoPlayer THEN Result(s, << >>)
        ELSE IF local.color # s.gameState.currentPlayer THEN Result(s, << >>)
        ELSE IF s.gameState.pendingSkill = "sandstorm"
        THEN LET result == applySandstorm(s.gameState, row, col, local.color)
             IN  Result([s EXCEPT !.gameState = result.next],
                        IF result.success
                        THEN broadcastSnapshot(s, s.hostPlayer, s.guestPlayer,
                                               s.roomStatus, s.spectators, result.next)
                        ELSE << >>)
        ELSE LET result == applyMove(s.gameState, row, col, local.color)
                 nextRoomStatus ==
                     IF result.outcome = "win" \/ result.outcome = "draw"
                     THEN "finished" ELSE s.roomStatus
             IN  IF ~result.success
                 THEN Result([s EXCEPT !.gameState = result.next], << >>)
                 ELSE Result([s EXCEPT !.gameState = result.next,
                                       !.roomStatus = nextRoomStatus],
                             broadcastSnapshot(s, s.hostPlayer, s.guestPlayer,
                                               nextRoomStatus, s.spectators, result.next))

\* handleSkillClick that publishes the match after a refused skill as well.
handleSkillClickAlwaysPublishes(me, s, skillId) ==
    LET local == localPlayer(me, s)
    IN  IF s.roomStatus # "playing" THEN Result(s, << >>)
        ELSE IF s.gameState.status # "playing" THEN Result(s, << >>)
        ELSE IF local = NoPlayer THEN Result(s, << >>)
        ELSE IF local.color # s.gameState.currentPlayer THEN Result(s, << >>)
        ELSE IF skillId = "sandstorm"
        THEN LET isActive == s.gameState.pendingSkill = "sandstorm"
                 next == [s.gameState EXCEPT
                            !.pendingSkill  = IF isActive THEN NULL ELSE "sandstorm",
                            !.statusMessage = IF isActive THEN "sandstormCancelled"
                                              ELSE "sandstormArmed"]
             IN  Result([s EXCEPT !.gameState = next],
                        broadcastSnapshot(s, s.hostPlayer, s.guestPlayer, s.roomStatus,
                                          s.spectators, next))
        ELSE LET result == IF skillId = "mountain"
                           THEN applyMountain(s.gameState, local.color)
                           ELSE applyRewind(s.gameState, local.color)
             IN  Result([s EXCEPT !.gameState = result.next],
                        broadcastSnapshot(s, s.hostPlayer, s.guestPlayer,
                                          s.roomStatus, s.spectators, result.next))

\* handleSkillClick that does not ask whether the room and the match are playing.
handleSkillClickAfterEnd(me, s, skillId) ==
    LET local == localPlayer(me, s)
    IN  IF local = NoPlayer THEN Result(s, << >>)
        ELSE IF local.color # s.gameState.currentPlayer THEN Result(s, << >>)
        ELSE IF skillId = "sandstorm"
        THEN LET isActive == s.gameState.pendingSkill = "sandstorm"
                 next == [s.gameState EXCEPT
                            !.pendingSkill  = IF isActive THEN NULL ELSE "sandstorm",
                            !.statusMessage = IF isActive THEN "sandstormCancelled"
                                              ELSE "sandstormArmed"]
             IN  Result([s EXCEPT !.gameState = next],
                        broadcastSnapshot(s, s.hostPlayer, s.guestPlayer, s.roomStatus,
                                          s.spectators, next))
        ELSE LET result == IF skillId = "mountain"
                           THEN applyMountain(s.gameState, local.color)
                           ELSE applyRewind(s.gameState, local.color)
             IN  Result([s EXCEPT !.gameState = result.next],
                        IF result.success
                        THEN broadcastSnapshot(s, s.hostPlayer, s.guestPlayer,
                                               s.roomStatus, s.spectators, result.next)
                        ELSE << >>)

handleSkillClick(me, s, skillId) ==
    LET local == localPlayer(me, s)
    IN  IF s.roomStatus # "playing" THEN Result(s, << >>)
        ELSE IF s.gameState.status # "playing" THEN Result(s, << >>)
        ELSE IF local = NoPlayer THEN Result(s, << >>)
        ELSE IF local.color # s.gameState.currentPlayer THEN Result(s, << >>)
        ELSE IF skillId = "sandstorm"
        THEN LET isActive == s.gameState.pendingSkill = "sandstorm"
                 next == [s.gameState EXCEPT
                            !.pendingSkill  = IF isActive THEN NULL ELSE "sandstorm",
                            !.statusMessage = IF isActive THEN "sandstormCancelled"
                                              ELSE "sandstormArmed"]
             IN  Result([s EXCEPT !.gameState = next],
                        broadcastSnapshot(s, s.hostPlayer, s.guestPlayer, s.roomStatus,
                                          s.spectators, next))
        ELSE LET result == IF skillId = "mountain"
                           THEN applyMountain(s.gameState, local.color)
                           ELSE applyRewind(s.gameState, local.color)
             IN  Result([s EXCEPT !.gameState = result.next],
                        IF result.success
                        THEN broadcastSnapshot(s, s.hostPlayer, s.guestPlayer,
                                               s.roomStatus, s.spectators, result.next)
                        ELSE << >>)

\* ------------------------------------------------------------------- state

VARIABLES
    app,      \* app[p]: the state of the App component of session p
    chan,     \* chan[p][q]: the broadcasts of p not yet delivered to q, oldest first
    budget    \* local actions (clicks, reloads) still to be taken in this behaviour

vars == <<app, chan, budget>>

\* The cells a user clicks in the model.
ClickCells == { <<7, 7>>, <<7, 8>>, <<0, 0>> }

\* A broadcast reaches every other session subscribed at the time of the send.
Receivers(p) == { q \in Ids \ {p} : app[q].channelRef }

CanSend(p, out) == \A q \in Receivers(p) : Len(chan[p][q]) + Len(out) <= MaxQueue

Sent(c, p, out) ==
    [c EXCEPT ![p] = [q \in Ids |-> IF q \in Receivers(p) THEN c[p][q] \o out
                                    ELSE c[p][q]]]

\* Session p runs a handler to completion: its state is replaced, its messages sent.
Handle(p, result, c) ==
    /\ CanSend(p, result.out)
    /\ app' = [app EXCEPT ![p] = result.state]
    /\ chan' = Sent(c, p, result.out)

\* A user action of session p.  A click whose handler returns at once changes
\* nothing and takes nothing from the budget.
Act(p, result) ==
    /\ budget > 0
    /\ result.state # app[p] \/ result.out # << >>
    /\ Handle(p, result, chan)
    /\ budget' = budget - 1

NoMessages == [p \in Ids |-> [q \in Ids |-> << >>]]

Init ==
    /\ app = [p \in Ids |-> InitialApp]
    /\ chan = NoMessages
    /\ budget = MaxSteps

\* ----------------------------------------------------------------- actions

\* The create panel is rendered only while the room status is idle.  Sessions are
\* interchangeable, so the room is created by the first of them; the invite code
\* drawn is one no session uses.
CreateRoom(p) ==
    /\ p = "u1"
    /\ app[p].roomStatus = "idle"
    /\ \A q \in Ids : app[q].roomCode = NULL
    /\ \E color \in Player : Act(p, handleCreateRoom(p, app[p], color, "Ann"))

JoinRoom(p) ==
    /\ app[p].roomStatus = "idle"
    /\ \E name \in Names : Act(p, handleJoinRoom(p, app[p], name))

\* The board, the skill cards, the ready and the reset buttons are rendered
\* whenever the room status is not idle.
ToggleReady(p) ==
    /\ app[p].roomStatus # "idle"
    /\ Act(p, toggleReady(p, app[p]))

ResetGame(p) ==
    /\ app[p].roomStatus # "idle"
    /\ Act(p, handleResetGame(p, app[p]))

CellClick(p) ==
    /\ app[p].roomStatus # "idle"
    /\ \E cell \in ClickCells : Act(p, handleCellClick(p, app[p], cell[1], cell[2]))

SkillClick(p) ==
    /\ app[p].roomStatus # "idle"
    /\ \E skillId \in SkillId : Act(p, handleSkillClick(p, app[p], skillId))

\* What the channel handlers of session q do with a message.
onMessage(q, s, message) ==
    CASE message.type = "snapshot" ->
             Result(applySnapshot(s, message.payload), << >>)
      [] message.type = "join-request" ->
             handleJoinRequest(q, s, message.payload)
      [] message.type = "state-request" ->
             handleStateRequest(q, s, message.payload)

\* The oldest broadcast of p waiting for q is delivered to q's handler.
Deliver(p, q) ==
    /\ chan[p][q] # << >>
    /\ Handle(q, onMessage(q, app[q], Head(chan[p][q])),
              [chan EXCEPT ![p][q] = Tail(chan[p][q])])
    /\ UNCHANGED budget

\* The tab of p is reloaded: a fresh component, no subscription; what was on its
\* way to the old subscription is lost.
Reload(p) ==
    /\ budget > 0
    /\ app[p].roomStatus # "idle"
    /\ app' = [app EXCEPT ![p] = InitialApp]
    /\ chan' = [x \in Ids |-> [chan[x] EXCEPT ![p] = << >>]]
    /\ budget' = budget - 1

\* From construction: the room is created and joined.  Within MaxSteps local
\* actions no match position arises in which a board or skill click does anything.
Next ==
    \/ \E p \in Ids : CreateRoom(p)
    \/ \E p \in Ids : JoinRoom(p)
    \/ \E p \in Ids : ToggleReady(p)
    \/ \E p \in Ids : ResetGame(p)
    \/ \E p \in Ids : Reload(p)
    \/ \E p \in Ids, q \in Ids : Deliver(p, q)

Spec == Init /\ [][Next]_vars

\* ------------------------------------------------- rooms with a match going

\* A match position: the stones in the order they were placed, black and white
\* in turn, black to move next.
Position(blacks, whites) ==
    [ board   |-> [r \in Idx |-> [c \in Idx |->
                     IF \E i \in 1 .. Len(blacks) : blacks[i] = <<r, c>> THEN "black"
                     ELSE IF \E i \in 1 .. Len(whites) : whites[i] = <<r, c>> THEN "white"
                     ELSE NULL]],
      history |-> [k \in 1 .. (Len(blacks) + Len(whites)) |->
                     IF k % 2 = 1
                     THEN [row |-> blacks[(k + 1) \div 2][1],
                           col |-> blacks[(k + 1) \div 2][2], player |-> "black"]
                     ELSE [row |-> whites[k \div 2][1],
                           col |-> whites[k \div 2][2], player |-> "white"]],
      currentPlayer |-> "black",
      status        |-> "playing",
      winner        |-> NULL,
      scores        |-> [p \in Player |-> 0],
      skillUses     |-> buildSkillState,
      pendingSkill  |-> NULL,
      statusMessage |-> "moveNext" ]

\* All cells, row by row.
AllCells ==
    [i \in 1 .. (BOARD_SIZE * BOARD_SIZE) |->
        <<(i - 1) \div BOARD_SIZE, (i - 1) % BOARD_SIZE>>]

\* A colouring of the whole board without five in a row in any direction.
DrawColour ==
    [r \in Idx |-> [c \in Idx |-> IF (c + 2 * r) % 4 < 2 THEN "black" ELSE "white"]]

\* The same with black on columns 3..6 of row 7, so that black wins at (7, 7).
WinColour ==
    [r \in Idx |-> [c \in Idx |->
        IF <<r, c>> \in {<<7, 4>>, <<7, 5>>} THEN "black"
        ELSE IF <<r, c>> \in {<<7, 2>>, <<0, 0>>} THEN "white"
        ELSE DrawColour[r][c]]]

\* Every cell but (7, 7) holds a stone of its colour: 112 black, 112 white.
FullBut77(colour) ==
    Position(SelectSeq(AllCells, LAMBDA cell :
                 cell # <<7, 7>> /\ colour[cell[1]][cell[2]] = "black"),
             SelectSeq(AllCells, LAMBDA cell :
                 cell # <<7, 7>> /\ colour[cell[1]][cell[2]] = "white"))

\* Black has four in row 7, open at both ends.
FourInRow ==
    Position(<< <<7, 3>>, <<7, 4>>, <<7, 5>>, <<7, 6>> >>,
             << <<8, 3>>, <<8, 4>>, <<8, 5>>, <<8, 6>> >>)

\* The positions a match of the model starts from.
Positions ==
    { \* the opening
      Position(<< >>, << >>),
      \* black has four in a line through (7, 7): row, column, both diagonals
      FourInRow,
      Position(<< <<3, 7>>, <<4, 7>>, <<5, 7>>, <<6, 7>> >>,
               << <<3, 8>>, <<4, 8>>, <<5, 8>>, <<6, 8>> >>),
      Position(<< <<3, 3>>, <<4, 4>>, <<5, 5>>, <<6, 6>> >>,
               << <<3, 4>>, <<4, 5>>, <<5, 6>>, <<6, 7>> >>),
      Position(<< <<3, 11>>, <<4, 10>>, <<5, 9>>, <<6, 8>> >>,
               << <<3, 10>>, <<4, 9>>, <<5, 8>>, <<6, 7>> >>),
      \* black has two and two around (7, 7)
      Position(<< <<7, 5>>, <<7, 6>>, <<7, 8>>, <<7, 9>> >>,
               << <<8, 5>>, <<8, 6>>, <<8, 8>>, <<8, 9>> >>),
      \* black has only three
      Position(<< <<7, 4>>, <<7, 5>>, <<7, 6>> >>,
               << <<8, 4>>, <<8, 5>>, <<8, 6>> >>),
      \* one empty cell left: a draw, and a win, at (7, 7)
      FullBut77(DrawColour),
      FullBut77(WinColour) }

\* The state host u1 and guest u2 share when both are seated and in step.
Seated(hostColor, status, game) ==
    [ gameState   |-> game,
      roomCode    |-> Code,
      roomStatus  |-> status,
      hostPlayer  |-> [id |-> "u1", name |-> "Ann", color |-> hostColor,
                       role |-> "host", ready |-> FALSE],
      guestPlayer |-> [id |-> "u2", name |-> "Bob", color |-> OTHER_PLAYER(hostColor),
                       role |-> "guest", ready |-> FALSE],
      spectators  |-> << >>,
      channelRef  |-> TRUE ]

\* The lobby before a rematch: black won the match before.
RematchLobby == [freshGameState(<< >>, "nextRound") EXCEPT !.scores["black"] = 1]

\* Host u1 and guest u2 play a match from one of the positions, or are in the
\* lobby before a rematch; u3 takes no part.
InitMatch ==
    /\ \E hostColor \in Player :
          \/ app = [p \in Ids |-> IF p = "u3" THEN InitialApp
                                  ELSE Seated(hostColor, "lobby", RematchLobby)]
          \/ \E game \in Positions :
                 app = [p \in Ids |-> IF p = "u3" THEN InitialApp
                                      ELSE Seated(hostColor, "playing", game)]
    /\ chan = NoMessages
    /\ budget = MaxSteps

NextMatch ==
    \/ \E p \in Ids : CellClick(p)
    \/ \E p \in Ids : SkillClick(p)
    \/ \E p \in Ids : ToggleReady(p)
    \/ \E p \in Ids : ResetGame(p)
    \/ \E p \in Ids, q \in Ids : Deliver(p, q)

SpecMatch == InitMatch /\ [][NextMatch]_vars

\* The state both share once the host has clicked ready in state s.
HostReady(s) ==
    [s EXCEPT !.hostPlayer.ready = TRUE, !.gameState.statusMessage = "oneReady"]

\* Host u1 and guest u2 are seated, in the lobby (the host ready or not) or in a
\* match, and sessions arrive, leave and come back.
InitJoin ==
    /\ \E hostColor \in Player :
          \/ app = [p \in Ids |-> IF p = "u3" THEN InitialApp
                                  ELSE Seated(hostColor, "lobby", RematchLobby)]
          \/ app = [p \in Ids |-> IF p = "u3" THEN InitialApp
                                  ELSE HostReady(Seated(hostColor, "lobby", RematchLobby))]
          \/ app = [p \in Ids |-> IF p = "u3" THEN InitialApp
                                  ELSE Seated(hostColor, "playing", FourInRow)]
    /\ chan = NoMessages
    /\ budget = MaxJoinSteps

NextJoin ==
    \/ \E p \in Ids : JoinRoom(p)
    \/ \E p \in Ids : Reload(p)
    \/ \E p \in Ids : ToggleReady(p)
    \/ \E p \in Ids, q \in Ids : Deliver(p, q)

SpecJoin == InitJoin /\ [][NextJoin]_vars

\* ----------------------------------------------- positions around one cell

\* Black stones in a line through anchor, a before it and b after it along
\* direction d, the anchor itself left empty.
LineStones(anchor, d, a, b) ==
    [i \in 1 .. (a + b) |->
        IF i <= a
        THEN <<anchor[1] - i * d[1], anchor[2] - i * d[2]>>
        ELSE <<anchor[1] + (i - a) * d[1], anchor[2] + (i - a) * d[2]>>]

\* n white stones on the last row, every other column: no line of them.
WhiteSide(n) == [i \in 1 .. n |-> <<BOARD_SIZE - 1, 2 * (i - 1)>>]

\* Black to move with up to four stones on either side of a click cell, in each
\* direction, and the two boards with one empty cell.
LinePositions ==
    { Position(LineStones(x[1], x[2], x[3], x[4]), WhiteSide(x[3] + x[4])) :
        x \in { y \in { <<7, 7>>, <<0, 0>> }
                       \X { DIRECTIONS[i] : i \in 1 .. Len(DIRECTIONS) }
                       \X (0 .. 4) \X (0 .. 4) :
                    \A i \in 1 .. (y[3] + y[4]) :
                        /\ LineStones(y[1], y[2], y[3], y[4])[i][1] \in Idx
                        /\ LineStones(y[1], y[2], y[3], y[4])[i][2] \in Idx } }
    \cup { FullBut77(DrawColour), FullBut77(WinColour) }

\* Host u1 and guest u2 play from one of the line positions.
InitWin ==
    /\ \E hostColor \in Player : \E game \in LinePositions :
           app = [p \in Ids |-> IF p = "u3" THEN InitialApp
                                ELSE Seated(hostColor, "playing", game)]
    /\ chan = NoMessages
    /\ budget = MaxWinSteps

NextWin ==
    \/ \E p \in Ids : CellClick(p)
    \/ \E p \in Ids, q \in Ids : Deliver(p, q)

SpecWin == InitWin /\ [][NextWin]_vars

\* ------------------------------------------------ the lobby before a match

\* The state host u1, guest u2 and spectator u3 share in the lobby.
SeatedWithSpectator(hostColor, name) ==
    [Seated(hostColor, "lobby", RematchLobby) EXCEPT
       !.spectators = << [id |-> "u3", name |-> name] >>]

\* Host, guest and one spectator are in the lobby before a rematch, in step.
InitLobby ==
    /\ \E hostColor \in Player : \E name \in Names :
           app = [p \in Ids |-> SeatedWithSpectator(hostColor, name)]
    /\ chan = NoMessages
    /\ budget = MaxLobbySteps

\* A seated player who does not see itself ready clicks the ready button.
ReadyClick(p) ==
    /\ app[p].roomStatus = "lobby"
    /\ localPlayer(p, app[p]) # NoPlayer
    /\ ~localPlayer(p, app[p]).ready
    /\ Act(p, toggleReady(p, app[p]))

NextLobby ==
    \/ \E p \in Ids : ReadyClick(p)
    \/ \E p \in Ids, q \in Ids : Deliver(p, q)

SpecLobby == InitLobby /\ [][NextLobby]_vars

\* ------------------------------------------------------ matches with skills

\* Stones of both colours next to the corner cell (0, 0), none near (7, 7).
CornerPosition ==
    Position(<< <<0, 1>>, <<1, 0>>, <<4, 4>> >>,
             << <<1, 1>>, <<2, 2>>, <<4, 5>> >>)

\* The positions a match with skills starts from.
SkillPositions == { Position(<< >>, << >>), FourInRow, CornerPosition }

\* Host u1 and guest u2 play on from one of these positions, every skill unused.
InitSkill ==
    /\ \E hostColor \in Player : \E game \in SkillPositions :
           app = [p \in Ids |-> IF p = "u3" THEN InitialApp
                                ELSE Seated(hostColor, "playing", game)]
    /\ chan = NoMessages
    /\ budget = MaxSkillSteps

NextSkill ==
    \/ \E p \in Ids : SkillClick(p)
    \/ \E p \in Ids : CellClick(p)
    \/ \E p \in Ids, q \in Ids : Deliver(p, q)

SpecSkill == InitSkill /\ [][NextSkill]_vars

\* ------------------------------------------- from the lobby into the match

\* Host u1 and guest u2 are seated in the lobby before a rematch, in step; u3
\* has not opened the room.
InitRace ==
    /\ \E hostColor \in Player :
           app = [p \in Ids |-> IF p = "u3" THEN InitialApp
                                ELSE Seated(hostColor, "lobby", RematchLobby)]
    /\ chan = NoMessages
    /\ budget = MaxRaceSteps

\* The players click ready, and then cells and skill cards.
NextRace ==
    \/ \E p \in Ids : ReadyClick(p)
    \/ \E p \in Ids : CellClick(p)
    \/ \E p \in Ids : SkillClick(p)
    \/ \E p \in Ids, q \in Ids : Deliver(p, q)

SpecRace == InitRace /\ [][NextRace]_vars

\* ------------------------------------------------- two matches side by side

\* Once the ready clicks have crossed in the lobby and both players have started
\* the match, a stone placed by black before white's start snapshot arrives
\* leaves black with the empty board and black to move, and white with that
\* stone and white to move (a behaviour of SpecRace).  From then on each player
\* moves in the match it holds and adopts the match the other sends: black always
\* holds a match with black to move and white a match with white to move, and
\* when both place the same stones the one is the other a move behind.

\* FourInRow before white's last stone: white to move.
FourInRowBefore ==
    applyMove(Position(<< <<7, 3>>, <<7, 4>>, <<7, 5>> >>,
                       << <<8, 3>>, <<8, 4>>, <<8, 5>> >>), 7, 6, "black").next

\* Host u1 and guest u2 play; black holds FourInRow, white the match a move
\* behind it, and no snapshot is on its way.
InitTwo ==
    /\ \E hostColor \in Player :
           app = [p \in Ids |->
                    IF p = "u3" THEN InitialApp
                    ELSE Seated(hostColor, "playing",
                                IF (p = "u1") = (hostColor = "black")
                                THEN FourInRow ELSE FourInRowBefore)]
    /\ chan = NoMessages
    /\ budget = MaxTwoSteps

NextTwo ==
    \/ \E p \in Ids : CellClick(p)
    \/ \E p \in Ids : SkillClick(p)
    \/ \E p \in Ids, q \in Ids : Deliver(p, q)

SpecTwo == InitTwo /\ [][NextTwo]_vars

\* ================================================================== claims

\* The handlers of session p let it place a stone or use a skill: it is seated,
\* its room and its match are playing, and its colour is to move.
MayAct(p) ==
    /\ app[p].roomStatus = "playing"
    /\ app[p].gameState.status = "playing"
    /\ localPlayer(p, app[p]) # NoPlayer
    /\ localPlayer(p, app[p]).color = app[p].gameState.currentPlayer

\* Session p may place a stone: it may act and no skill awaits its target.
MayPlace(p) == MayAct(p) /\ app[p].gameState.pendingSkill # "sandstorm"

\* Five cells in a line, (row, col) one of them, all hold player's stones.
FiveThrough(board, row, col, player) ==
    \E d \in { <<1, 0>>, <<0, 1>>, <<1, 1>>, <<1, -1>> } : \E k \in 0 .. 4 :
        \A j \in 0 .. 4 :
            LET r == row + (j - k) * d[1]
                c == col + (j - k) * d[2]
            IN  r \in Idx /\ c \in Idx /\ board[r][c] = player

NoEmptyCell(board) == \A r \in Idx : NULL \notin { board[r][c] : c \in Idx }

\* C1: a stone placed on an empty cell by the player to move ends the match as
\* won by that player if it completes five in a line through the cell, else as
\* a draw if the board is then full, else the match goes on; a stone that fills
\* the last cell and completes five wins.
C1_PlacementOutcome ==
    \A p \in Ids : \A cell \in ClickCells :
        LET g     == app[p].gameState
            me    == localPlayer(p, app[p]).color
            after == handleCellClick(p, app[p], cell[1], cell[2]).state.gameState
        IN  (MayPlace(p) /\ g.board[cell[1]][cell[2]] = NULL) =>
                /\ after.board = [g.board EXCEPT ![cell[1]][cell[2]] = me]
                /\ after.status =
                       IF FiveThrough(after.board, cell[1], cell[2], me) THEN "won"
                       ELSE IF NoEmptyCell(after.board) THEN "draw"
                       ELSE "playing"
                /\ after.status = "won" => after.winner = me

\* A match was won by the stone that filled the last empty cell.
C1_Witness ==
    \E p \in Ids :
        /\ app[p].gameState.status = "won"
        /\ app[p].gameState.statusMessage = "moveWin"
        /\ NoEmptyCell(app[p].gameState.board)

\* C2: for a stone on the board, checkWin at its cell and for its colour is true
\* exactly if the stone lies in a line of five or more stones of its colour,
\* along a row, a column or a diagonal.
C2_CheckWinIffFive ==
    \A p \in Ids : \A r \in Idx : \A c \in Idx :
        LET board == app[p].gameState.board
        IN  board[r][c] # NULL =>
                (checkWin(board, r, c, board[r][c])
                     <=> FiveThrough(board, r, c, board[r][c]))

\* A match was won along the diagonal that runs down and to the left.
C2_Witness ==
    \E p \in Ids :
        /\ app[p].gameState.status = "won"
        /\ \A j \in 0 .. 4 : app[p].gameState.board[3 + j][11 - j] = "black"

\* C3: placing on an occupied cell fails: applyMove reports no success and
\* returns the state with nothing but the narration changed, and the click
\* publishes nothing.
C3_OccupiedCellRefused ==
    \A p \in Ids : \A cell \in ClickCells :
        LET g == app[p].gameState
            h == handleCellClick(p, app[p], cell[1], cell[2])
        IN  g.board[cell[1]][cell[2]] # NULL =>
                /\ \A player \in Player :
                       LET result == applyMove(g, cell[1], cell[2], player)
                       IN  /\ ~result.success
                           /\ result.next =
                                  [g EXCEPT !.statusMessage = result.next.statusMessage]
                /\ MayPlace(p) =>
                       /\ h.out = << >>
                       /\ h.state = [app[p] EXCEPT !.gameState.statusMessage =
                                                       h.state.gameState.statusMessage]

\* A player to move was told the cell is taken.
C3_Witness ==
    \E p \in Ids :
        /\ MayPlace(p)
        /\ app[p].gameState.statusMessage = "occupied"

\* C4: a stone placed on an empty cell that does not end the match passes the
\* turn to the other colour and is appended to the history; a match with one
\* or two stones placed and no skill used has black's move first, white's
\* second, and the turn with the colour that did not move last.
C4_TurnAlternates ==
    \A p \in Ids :
        LET g == app[p].gameState
            me == localPlayer(p, app[p]).color
        IN  /\ \A cell \in ClickCells :
                   LET after ==
                           handleCellClick(p, app[p], cell[1], cell[2]).state.gameState
                   IN  ( /\ MayPlace(p)
                         /\ g.board[cell[1]][cell[2]] = NULL
                         /\ after.status = "playing" ) =>
                           /\ after.currentPlayer = OTHER_PLAYER(me)
                           /\ after.history =
                                  Append(g.history, [row |-> cell[1], col |-> cell[2],
                                                     player |-> me])
            /\ ( /\ g.status = "playing"
                 /\ g.skillUses = [s \in SkillId |-> 1]
                 /\ Len(g.history) \in {1, 2} ) =>
                   /\ g.history[1].player = "black"
                   /\ Len(g.history) = 1 => g.currentPlayer = "white"
                   /\ Len(g.history) = 2 =>
                          g.history[2].player = "white" /\ g.currentPlayer = "black"

\* Black has placed at (7, 7), white at (7, 8), and it is black's turn.
C4_Witness ==
    \E p \in Ids :
        /\ app[p].gameState.history =
               << [row |-> 7, col |-> 7, player |-> "black"],
                  [row |-> 7, col |-> 8, player |-> "white"] >>
        /\ app[p].gameState.currentPlayer = "black"
        /\ app[p].gameState.status = "playing"

\* The one snapshot in out, of a room that is finished, with match game.
FinishedSnapshot(out, game) ==
    /\ Len(out) = 1
    /\ out[1].type = "snapshot"
    /\ out[1].payload.room.status = "finished"
    /\ out[1].payload.game = game

\* C5: a stone that completes five makes the match won by its colour, adds one
\* to that colour's score and nothing to the other's, leaves the turn where it
\* is, and the room finished in the state and in the snapshot sent; a stone
\* that fills the board without five leaves the scores and finishes the room
\* the same way.
C5_WinScoresAndFinishes ==
    \A p \in Ids : \A cell \in ClickCells :
        LET g      == app[p].gameState
            me     == localPlayer(p, app[p]).color
            placed == [g.board EXCEPT ![cell[1]][cell[2]] = me]
            h      == handleCellClick(p, app[p], cell[1], cell[2])
            after  == h.state.gameState
        IN  (MayPlace(p) /\ g.board[cell[1]][cell[2]] = NULL) =>
                /\ FiveThrough(placed, cell[1], cell[2], me) =>
                       /\ after.status = "won"
                       /\ after.winner = me
                       /\ after.scores[me] = g.scores[me] + 1
                       /\ after.scores[OTHER_PLAYER(me)] = g.scores[OTHER_PLAYER(me)]
                       /\ after.currentPlayer = g.currentPlayer
                       /\ h.state.roomStatus = "finished"
                       /\ FinishedSnapshot(h.out, after)
                /\ (~FiveThrough(placed, cell[1], cell[2], me) /\ NoEmptyCell(placed)) =>
                       /\ after.status = "draw"
                       /\ after.scores = g.scores
                       /\ h.state.roomStatus = "finished"
                       /\ FinishedSnapshot(h.out, after)

\* The loser's session shows the match won, the room finished, the winner's
\* score one.
C5_Witness ==
    \E p \in Ids :
        /\ app[p].gameState.status = "won"
        /\ app[p].roomStatus = "finished"
        /\ localPlayer(p, app[p]) # NoPlayer
        /\ localPlayer(p, app[p]).color # app[p].gameState.winner
        /\ app[p].gameState.scores[app[p].gameState.winner] = 1

\* C6: when a seated player toggles ready in the lobby with a guest seated: if
\* host and guest are then both ready the room is playing, both flags are
\* false, board and history are empty, every skill counter is 1, no skill is
\* pending, the match is playing, black is to move and the scores are those of
\* before; otherwise the room stays in the lobby with board and history as they
\* were.
C6_ReadyToggle ==
    \A p \in Ids :
        LET s          == app[p]
            local      == localPlayer(p, s)
            hostReady  == IF local.role = "host" THEN ~s.hostPlayer.ready
                          ELSE s.hostPlayer.ready
            guestReady == IF local.role = "guest" THEN ~s.guestPlayer.ready
                          ELSE s.guestPlayer.ready
            after      == toggleReady(p, s).state
        IN  (s.roomStatus = "lobby" /\ s.guestPlayer # NoPlayer /\ local # NoPlayer) =>
                IF hostReady /\ guestReady
                THEN /\ after.roomStatus = "playing"
                     /\ ~after.hostPlayer.ready
                     /\ ~after.guestPlayer.ready
                     /\ \A r \in Idx : \A c \in Idx : after.gameState.board[r][c] = NULL
                     /\ after.gameState.history = << >>
                     /\ \A k \in Player : \A skill \in SkillId :
                            after.gameState.skillUses[k][skill] = 1
                     /\ after.gameState.pendingSkill = NULL
                     /\ after.gameState.status = "playing"
                     /\ after.gameState.currentPlayer = "black"
                     /\ after.gameState.scores = s.gameState.scores
                ELSE /\ after.roomStatus = "lobby"
                     /\ after.hostPlayer.ready = hostReady
                     /\ after.guestPlayer.ready = guestReady
                     /\ after.gameState.board = s.gameState.board
                     /\ after.gameState.history = s.gameState.history

\* Both were ready: a rematch has started with the score of the match before.
C6_Witness ==
    \E p \in Ids :
        /\ app[p].roomStatus = "playing"
        /\ app[p].gameState.statusMessage = "blackStarts"
        /\ app[p].gameState.scores["black"] = 1
        /\ ~app[p].hostPlayer.ready /\ ~app[p].guestPlayer.ready

\* The join-request at the head of the queue from q to host p comes from the
\* identity of the guest seated at p.
RejoinPending(p, q) ==
    /\ chan[q][p] # << >>
    /\ Head(chan[q][p]).type = "join-request"
    /\ app[p].hostPlayer.id = p
    /\ app[p].guestPlayer.id = Head(chan[q][p]).payload.playerId

\* An empty board and history, black to move, no winner, scores zero, every
\* skill counter 1, no skill pending.
FreshMatch(g) ==
    /\ \A r \in Idx : \A c \in Idx : g.board[r][c] = NULL
    /\ g.history = << >>
    /\ g.currentPlayer = "black"
    /\ g.status = "playing"
    /\ g.winner = NULL
    /\ \A k \in Player : g.scores[k] = 0
    /\ \A k \in Player : \A skill \in SkillId : g.skillUses[k][skill] = 1
    /\ g.pendingSkill = NULL

\* The one snapshot in out, and it carries the room, players, spectators and
\* match of state s.
SnapshotOf(out, s) ==
    /\ Len(out) = 1
    /\ out[1].type = "snapshot"
    /\ out[1].payload.room = [code |-> s.roomCode, status |-> s.roomStatus]
    /\ out[1].payload.players.host = playerSnapshot(s.hostPlayer)
    /\ out[1].payload.players.guest = playerSnapshot(s.guestPlayer)
    /\ out[1].payload.spectators = s.spectators
    /\ out[1].payload.game = s.gameState

\* C7 as stated: the host's handling of a join-request from the seated guest's
\* identity changes nothing but the guest's display name.
C7_RejoinOnlyRenames ==
    \A p \in Ids : \A q \in Ids :
        RejoinPending(p, q) =>
            LET message == Head(chan[q][p])
            IN  onMessage(p, app[p], message).state =
                    [app[p] EXCEPT !.guestPlayer.name = message.payload.name]

\* C7 amended: the host's handling of a join-request from the seated guest's
\* identity keeps the guest's seat, identity and colour and takes its new name,
\* and, as for a first join, clears both ready flags, puts the room in the
\* lobby and replaces the match by a fresh one with scores zero; the spectator
\* list is unchanged and the snapshot sent carries that state.
C7_RejoinKeepsSeatResetsMatch ==
    \A p \in Ids : \A q \in Ids :
        RejoinPending(p, q) =>
            LET message == Head(chan[q][p])
                h       == onMessage(p, app[p], message)
            IN  /\ h.state = [app[p] EXCEPT
                                !.guestPlayer.name  = message.payload.name,
                                !.guestPlayer.ready = FALSE,
                                !.hostPlayer.ready  = FALSE,
                                !.roomStatus        = "lobby",
                                !.gameState         = h.state.gameState]
                /\ FreshMatch(h.state.gameState)
                /\ SnapshotOf(h.out, h.state)

\* The host has handled the seated guest's second join: the guest sits where it
\* sat, and the host, ready before, is not ready.
C7_Witness ==
    \E p \in Ids :
        /\ app[p].hostPlayer.id = p
        /\ app[p].guestPlayer.id = "u2"
        /\ app[p].gameState.statusMessage = "waitingForGuest"
        /\ app[p].gameState.scores["black"] = 0
        /\ chan["u2"][p] # << >>
        /\ Head(chan["u2"][p]).type = "state-request"

\* C8: the host's handling, with a guest seated, of a join-request from another
\* identity changes nothing but the spectator list, where the requester is
\* appended, or has its name refreshed in place if it is listed; the requester
\* does not take the guest seat, and the snapshot sent carries that state.
C8_OtherIdentitySpectates ==
    \A p \in Ids :
        LET s == app[p]
        IN  (s.hostPlayer.id = p /\ s.guestPlayer # NoPlayer) =>
                \A playerId \in Ids \ {s.guestPlayer.id} : \A name \in Names :
                    LET h      == handleJoinRequest(p, s, [playerId |-> playerId,
                                                           name |-> name])
                        listed == { i \in 1 .. Len(s.spectators) :
                                        s.spectators[i].id = playerId }
                    IN  /\ h.state = [s EXCEPT !.spectators = h.state.spectators]
                        /\ h.state.guestPlayer.id # playerId
                        /\ IF listed = {}
                           THEN h.state.spectators =
                                    Append(s.spectators,
                                           [id |-> playerId, name |-> name])
                           ELSE /\ Len(h.state.spectators) = Len(s.spectators)
                                /\ \A i \in 1 .. Len(s.spectators) :
                                       h.state.spectators[i] =
                                           IF i \in listed
                                           THEN [id |-> playerId, name |-> name]
                                           ELSE s.spectators[i]
                        /\ SnapshotOf(h.out, h.state)

\* The host has listed u3 as a spectator while u2 keeps the guest seat.
C8_Witness ==
    \E p \in Ids :
        /\ app[p].hostPlayer.id = p
        /\ app[p].guestPlayer.id = "u2"
        /\ \E i \in 1 .. Len(app[p].spectators) : app[p].spectators[i].id = "u3"

\* C9: the host's handling, with no guest seated, of a join-request seats the
\* requester as guest with the colour the host does not have, clears both ready
\* flags, puts the room in the lobby, replaces the match by a fresh one, takes
\* the requester off the spectator list, and sends one snapshot that carries
\* exactly that state.
C9_FirstJoinSeatsGuest ==
    \A p \in Ids :
        LET s == app[p]
        IN  (s.hostPlayer.id = p /\ s.guestPlayer = NoPlayer) =>
                \A playerId \in Ids \ {p} : \A name \in Names :
                    LET h == handleJoinRequest(p, s, [playerId |-> playerId,
                                                      name |-> name])
                    IN  /\ h.state.guestPlayer =
                               [id |-> playerId, name |-> name,
                                color |-> OTHER_PLAYER(s.hostPlayer.color),
                                role |-> "guest", ready |-> FALSE]
                        /\ h.state.hostPlayer = [s.hostPlayer EXCEPT !.ready = FALSE]
                        /\ h.state.roomStatus = "lobby"
                        /\ FreshMatch(h.state.gameState)
                        /\ h.state.spectators =
                               SelectSeq(s.spectators, LAMBDA x : x.id # playerId)
                        /\ h.state.roomCode = s.roomCode
                        /\ SnapshotOf(h.out, h.state)

\* The host, who had clicked ready alone, has seated u2 and is not ready.
C9_Witness ==
    \E p \in Ids :
        /\ app[p].hostPlayer.id = p
        /\ app[p].guestPlayer.id = "u2"
        /\ app[p].guestPlayer.color = OTHER_PLAYER(app[p].hostPlayer.color)
        /\ app[p].gameState.statusMessage = "waitingForGuest"
        /\ app[p].roomStatus = "lobby"

\* The snapshots on their way to some session, and each of them as the host
\* would have sent it with no guest seated.
SnapshotsInFlight ==
    LET sent == { chan[q][r][i].payload :
                    <<q, r, i>> \in { x \in Ids \X Ids \X (1 .. MaxQueue) :
                                        /\ x[3] <= Len(chan[x[1]][x[2]])
                                        /\ chan[x[1]][x[2]][x[3]].type = "snapshot" } }
    IN  sent \cup { [S EXCEPT !.players.guest = NoPlayerSnapshot] : S \in sent }

\* C10: applying a snapshot replaces room code, room status, host, guest,
\* spectators and match by those of the snapshot, whatever the state before,
\* and applying it a second time changes nothing.
C10_SnapshotReplacesAll ==
    \A p \in Ids : \A S \in SnapshotsInFlight :
        LET once == applySnapshot(app[p], S)
        IN  /\ once.roomCode = S.room.code
            /\ once.roomStatus = S.room.status
            /\ playerSnapshot(once.hostPlayer) = S.players.host
            /\ once.hostPlayer.role = "host"
            /\ playerSnapshot(once.guestPlayer) = S.players.guest
            /\ S.players.guest # NoPlayerSnapshot => once.guestPlayer.role = "guest"
            /\ once.spectators = S.spectators
            /\ once.gameState = S.game
            /\ once = [applySnapshot(InitialApp, S) EXCEPT
                         !.channelRef = app[p].channelRef]
            /\ applySnapshot(once, S) = once

\* Session u3, which joined with nothing but a room code, shows the room of the
\* snapshot it received: host u1, guest u2, itself a spectator.
C10_Witness ==
    /\ app["u3"].hostPlayer.id = "u1"
    /\ app["u3"].guestPlayer.id = "u2"
    /\ app["u3"].spectators # << >>
    /\ app["u3"].gameState = app["u1"].gameState
    /\ app["u3"].roomStatus = app["u1"].roomStatus

\* What a participant holds of the room: status, players, spectators and the
\* match, the narration left aside.
View(s) ==
    [ roomStatus  |-> s.roomStatus,
      hostPlayer  |-> s.hostPlayer,
      guestPlayer |-> s.guestPlayer,
      spectators  |-> s.spectators,
      game        |-> [s.gameState EXCEPT !.statusMessage = NULL] ]

\* C11: when no broadcast is left to deliver, host, guest and spectator hold
\* the same room status, players with their ready flags, spectator list and
\* match.
C11_QuiescentAgreement ==
    chan = NoMessages => \A p \in Ids : \A q \in Ids : View(app[p]) = View(app[q])

\* C12: a snapshot sent by another participant and applied by the host leaves
\* the guest the host has seated in its seat and every spectator the host has
\* recorded on the host's list.
C12_HostDecisionsStand ==
    \A p \in Ids : \A q \in Ids :
        ( /\ chan[q][p] # << >>
          /\ Head(chan[q][p]).type = "snapshot"
          /\ app[p].hostPlayer.id = p ) =>
            LET after == applySnapshot(app[p], Head(chan[q][p]).payload)
            IN  /\ app[p].guestPlayer # NoPlayer =>
                       after.guestPlayer.id = app[p].guestPlayer.id
                /\ \A i \in 1 .. Len(app[p].spectators) :
                       \E j \in 1 .. Len(after.spectators) :
                           after.spectators[j].id = app[p].spectators[i].id

\* C13: when host and guest have each clicked ready once from a lobby with no
\* one ready and every snapshot is delivered, the room is playing at both, on
\* an empty board, black to move.
C13_BothReadyLeadsToPlay ==
    (budget = MaxLobbySteps - 2 /\ chan = NoMessages) =>
        \A p \in {"u1", "u2"} :
            /\ app[p].roomStatus = "playing"
            /\ \A r \in Idx : \A c \in Idx : app[p].gameState.board[r][c] = NULL
            /\ app[p].gameState.currentPlayer = "black"

\* The cell (r, c) lies in the 3x3 square around (row, col).
Near(r, c, row, col) ==
    /\ r - row \in {-1, 0, 1}
    /\ c - col \in {-1, 0, 1}

\* Some cell of the board in the 3x3 square around (row, col) holds a stone.
StoneNear(board, row, col) ==
    \E r \in {row - 1, row, row + 1} \cap Idx :
        \E c \in {col - 1, col, col + 1} \cap Idx : board[r][c] # NULL

\* Session p has armed the sandstorm and is to pick its target.
MayTarget(p) == MayAct(p) /\ app[p].gameState.pendingSkill = "sandstorm"

\* Nothing of the match but the narration differs between g and next.
OnlyNarration(g, next) == next = [g EXCEPT !.statusMessage = next.statusMessage]

\* The counters of g with one taken from player's counter of skill.
OneUseLess(g, player, skill) ==
    [k \in Player |-> [x \in SkillId |->
        IF k = player /\ x = skill THEN g.skillUses[k][x] - 1 ELSE g.skillUses[k][x]]]

\* C14: the sandstorm aimed at a cell with no stone in the 3x3 square around it
\* is not applied: applySandstorm reports no success and returns the match with
\* nothing but the narration changed (no counter, board, history, turn or
\* status), and the click leaves the skill armed and publishes nothing.
C14_SandstormMissChangesNothing ==
    \A p \in Ids : \A cell \in ClickCells :
        LET g == app[p].gameState
        IN  (MayTarget(p) /\ ~StoneNear(g.board, cell[1], cell[2])) =>
                /\ \A player \in Player :
                       LET result == applySandstorm(g, cell[1], cell[2], player)
                       IN  ~result.success /\ OnlyNarration(g, result.next)
                /\ LET h == handleCellClick(p, app[p], cell[1], cell[2])
                   IN  /\ h.out = << >>
                       /\ h.state.gameState.pendingSkill = "sandstorm"
                       /\ h.state = [app[p] EXCEPT !.gameState.statusMessage =
                                         h.state.gameState.statusMessage]

\* A player with the sandstorm armed and unspent was told that it hit nothing.
C14_Witness ==
    \E p \in Ids :
        /\ MayTarget(p)
        /\ app[p].gameState.statusMessage = "sandstormNothing"
        /\ app[p].gameState.skillUses[app[p].gameState.currentPlayer]["sandstorm"] = 1

\* C15: the sandstorm aimed, with a use left, at a cell with a stone in the 3x3
\* square around it empties every cell of that square and no other, drops
\* exactly the history entries of that square and keeps the others in their
\* order, takes one from the caster's sandstorm counter and from no other
\* counter, and leaves no skill pending.
C15_SandstormClearsSquare ==
    \A p \in Ids : \A cell \in ClickCells : \A player \in Player :
        LET g      == app[p].gameState
            result == applySandstorm(g, cell[1], cell[2], player)
        IN  ( /\ MayTarget(p)
              /\ g.skillUses[player]["sandstorm"] > 0
              /\ StoneNear(g.board, cell[1], cell[2]) ) =>
                /\ result.success
                /\ \A r \in Idx : \A c \in Idx :
                       result.next.board[r][c] =
                           IF Near(r, c, cell[1], cell[2]) THEN NULL ELSE g.board[r][c]
                /\ result.next.history =
                       SelectSeq(g.history,
                                 LAMBDA m : ~Near(m.row, m.col, cell[1], cell[2]))
                /\ result.next.skillUses = OneUseLess(g, player, "sandstorm")
                /\ result.next.pendingSkill = NULL

\* A sandstorm at (7, 7) has blown stones of both colours away, the entries of
\* the stones out of its reach are left, and the caster has no sandstorm left.
C15_Witness ==
    \E p \in Ids :
        /\ app[p].gameState.statusMessage = "sandstormDone"
        /\ app[p].gameState.skillUses[app[p].gameState.currentPlayer]["sandstorm"] = 0
        /\ app[p].gameState.board[7][6] = NULL
        /\ app[p].gameState.board[8][6] = NULL
        /\ app[p].gameState.board[7][5] = "black"
        /\ Len(app[p].gameState.history) = 6

\* C16: applyMountain is applied exactly if the caster has a use left and the
\* last move of the history is the opponent's; applied, it empties that move's
\* cell and no other, drops that last entry and takes one from the caster's
\* mountain counter only; not applied, it changes nothing but the narration.
C16_MountainUndoesOpponent ==
    \A p \in Ids : \A player \in Player :
        LET g      == app[p].gameState
            n      == Len(g.history)
            result == applyMountain(g, player)
        IN  MayAct(p) =>
                /\ result.success <=>
                       /\ g.skillUses[player]["mountain"] > 0
                       /\ n > 0
                       /\ g.history[n].player = OTHER_PLAYER(player)
                /\ result.success =>
                       /\ \A r \in Idx : \A c \in Idx :
                              result.next.board[r][c] =
                                  IF r = g.history[n].row /\ c = g.history[n].col
                                  THEN NULL ELSE g.board[r][c]
                       /\ result.next.history = [i \in 1 .. (n - 1) |-> g.history[i]]
                       /\ result.next.skillUses = OneUseLess(g, player, "mountain")
                /\ ~result.success => OnlyNarration(g, result.next)

\* The player to move has taken the opponent's last stone off the board.
C16_Witness ==
    \E p \in Ids :
        /\ MayAct(p)
        /\ app[p].gameState.statusMessage = "mountainDone"
        /\ app[p].gameState.skillUses[app[p].gameState.currentPlayer]["mountain"] = 0

\* C17: applyRewind is applied exactly if the caster has a use left, the
\* history has two entries or more, the last is the opponent's and the one
\* before it the caster's; applied, it empties those two cells and no other,
\* drops those two entries and takes one from the caster's rewind counter only;
\* not applied, it changes nothing but the narration.
C17_RewindUndoesPair ==
    \A p \in Ids : \A player \in Player :
        LET g      == app[p].gameState
            n      == Len(g.history)
            result == applyRewind(g, player)
        IN  MayAct(p) =>
                /\ result.success <=>
                       /\ g.skillUses[player]["rewind"] > 0
                       /\ n >= 2
                       /\ g.history[n].player = OTHER_PLAYER(player)
                       /\ g.history[n - 1].player = player
                /\ result.success =>
                       /\ result.next.board =
                              [g.board EXCEPT
                                 ![g.history[n].row][g.history[n].col] = NULL,
                                 ![g.history[n - 1].row][g.history[n - 1].col] = NULL]
                       /\ result.next.history = [i \in 1 .. (n - 2) |-> g.history[i]]
                       /\ result.next.skillUses = OneUseLess(g, player, "rewind")
                /\ ~result.success => OnlyNarration(g, result.next)

\* The player to move has taken back its own last stone and the opponent's.
C17_Witness ==
    \E p \in Ids :
        /\ MayAct(p)
        /\ app[p].gameState.statusMessage = "rewindDone"
        /\ app[p].gameState.skillUses[app[p].gameState.currentPlayer]["rewind"] = 0

\* The match of state s lets the player of colour place a stone at once.
CanPlaceNext(s, colour) ==
    /\ s.roomStatus = "playing"
    /\ s.gameState.status = "playing"
    /\ s.gameState.currentPlayer = colour
    /\ s.gameState.pendingSkill = NULL

\* C18: no skill changes the turn: arming and cancelling the sandstorm, its
\* resolution on a target, the mountain and the rewind, applied or not, leave
\* currentPlayer as it was, in the state and in the snapshot sent; after a
\* skill that was applied the caster may place a stone.
C18_SkillsKeepTurn ==
    \A p \in Ids :
        LET g  == app[p].gameState
            me == localPlayer(p, app[p]).color
        IN  MayAct(p) =>
                /\ \A skillId \in SkillId :
                       LET h == handleSkillClick(p, app[p], skillId)
                       IN  /\ h.state.gameState.currentPlayer = g.currentPlayer
                           /\ \A i \in 1 .. Len(h.out) :
                                  h.out[i].payload.game.currentPlayer = g.currentPlayer
                           /\ (skillId # "sandstorm" /\ h.out # << >>) =>
                                  CanPlaceNext(h.state, me)
                /\ MayTarget(p) =>
                       \A cell \in ClickCells :
                           LET h == handleCellClick(p, app[p], cell[1], cell[2])
                           IN  /\ h.state.gameState.currentPlayer = g.currentPlayer
                               /\ \A i \in 1 .. Len(h.out) :
                                      h.out[i].payload.game.currentPlayer = g.currentPlayer
                               /\ h.out # << >> => CanPlaceNext(h.state, me)
                /\ \A player \in Player :
                       /\ applyMountain(g, player).next.currentPlayer = g.currentPlayer
                       /\ applyRewind(g, player).next.currentPlayer = g.currentPlayer

\* A player took the opponent's last stone away and then placed a stone: the
\* last two moves of the history are that player's.
C18_Witness ==
    \E p \in Ids :
        LET g == app[p].gameState
            n == Len(g.history)
        IN  /\ n >= 2
            /\ g.history[n].player = g.history[n - 1].player
            /\ g.skillUses[g.history[n].player]["mountain"] = 0
            /\ g.statusMessage = "moveNext"

\* Session p holds the host's or the guest's seat in its own state.
IsSeated(p) == app[p].hostPlayer.id = p \/ app[p].guestPlayer.id = p

\* Session p is seated, its room and its match are playing and its colour is
\* the one to move.
Permitted(p) ==
    /\ IsSeated(p)
    /\ app[p].roomStatus = "playing"
    /\ app[p].gameState.status = "playing"
    /\ \/ app[p].hostPlayer.id = p
          /\ app[p].hostPlayer.color = app[p].gameState.currentPlayer
       \/ app[p].hostPlayer.id # p
          /\ app[p].guestPlayer.color = app[p].gameState.currentPlayer

\* C19: a click on a cell or on a skill by a session that is not seated, or
\* whose room is not playing, or whose match is not playing, or whose colour is
\* not to move, changes nothing of its state and publishes nothing.
C19_ActionGating ==
    \A p \in Ids :
        ~Permitted(p) =>
            /\ \A cell \in ClickCells :
                   handleCellClick(p, app[p], cell[1], cell[2]) = Result(app[p], << >>)
            /\ \A skillId \in SkillId :
                   handleSkillClick(p, app[p], skillId) = Result(app[p], << >>)

\* A seated player's room is finished and its match won while its colour is
\* still the one to move: only the two status guards stand between it and a
\* further stone or skill.
C19_Witness ==
    \E p \in Ids :
        /\ IsSeated(p)
        /\ ~Permitted(p)
        /\ app[p].roomStatus = "finished"
        /\ app[p].gameState.status = "won"
        /\ localPlayer(p, app[p]).color = app[p].gameState.currentPlayer

\* C20: in the state of every session and in every snapshot on its way, a
\* match that is not playing has no skill pending.
C20_NoPendingSkillAfterEnd ==
    /\ \A p \in Ids :
           app[p].gameState.status # "playing" => app[p].gameState.pendingSkill = NULL
    /\ \A S \in SnapshotsInFlight :
           S.game.status # "playing" => S.game.pendingSkill = NULL

\* After three clicks the match is won at a session with no skill pending and
\* a snapshot of the won match is on its way.
C20_Witness ==
    /\ \E p \in Ids :
           /\ app[p].gameState.status = "won"
           /\ app[p].gameState.pendingSkill = NULL
    /\ \E S \in SnapshotsInFlight : S.game.status = "won"
    /\ budget = MaxSteps - 3

\* The match g has just been installed: empty board, empty history, every
\* skill counter 1.
NewMatch(g) ==
    /\ \A r \in Idx : \A c \in Idx : g.board[r][c] = NULL
    /\ g.history = << >>
    /\ \A k \in Player : \A skill \in SkillId : g.skillUses[k][skill] = 1

\* C21: every skill counter of every session's match is 0 or 1 in every state,
\* and no step of a session, a click of its own or a snapshot applied, raises a
\* counter unless the match the session holds after the step is a new one.
C21_SkillInventory ==
    /\ [](\A p \in Ids : \A k \in Player : \A skill \in SkillId :
              app[p].gameState.skillUses[k][skill] \in {0, 1})
    /\ [][\A p \in Ids :
              (\E k \in Player : \E skill \in SkillId :
                   app'[p].gameState.skillUses[k][skill]
                       > app[p].gameState.skillUses[k][skill])
              => NewMatch(app'[p].gameState)]_vars

\* C22: once the match a session holds is won or drawn, every step of that
\* session, a click of its own or a snapshot applied, leaves status, winner,
\* board and history as they are, unless the match it holds after the step is
\* a new one.
C22_TerminalStays ==
    [][\A p \in Ids :
           app[p].gameState.status \in {"won", "draw"} =>
               \/ /\ app'[p].gameState.status  = app[p].gameState.status
                  /\ app'[p].gameState.winner  = app[p].gameState.winner
                  /\ app'[p].gameState.board   = app[p].gameState.board
                  /\ app'[p].gameState.history = app[p].gameState.history
               \/ /\ NewMatch(app'[p].gameState)
                  /\ app'[p].gameState.status = "playing"]_vars

\* C23: a reset by a session that holds the room leaves host and guest as they
\* were but not ready, puts the room in the lobby and installs a match with an
\* empty board and history, black to move, every skill counter 1, status
\* playing, no winner, no skill pending and the scores of the match before;
\* room code and spectators stay, and the one snapshot published carries this
\* state.
C23_ResetGame ==
    \A p \in Ids :
        app[p].roomStatus # "idle" =>
            LET s == app[p]
                h == handleResetGame(p, s)
                g == h.state.gameState
            IN  /\ h.state.hostPlayer = [s.hostPlayer EXCEPT !.ready = FALSE]
                /\ h.state.guestPlayer = [s.guestPlayer EXCEPT !.ready = FALSE]
                /\ h.state.roomStatus = "lobby"
                /\ NewMatch(g)
                /\ g.currentPlayer = "black"
                /\ g.status = "playing"
                /\ g.winner = NULL
                /\ g.pendingSkill = NULL
                /\ g.scores = s.gameState.scores
                /\ h.state.roomCode = s.roomCode
                /\ h.state.spectators = s.spectators
                /\ SnapshotOf(h.out, h.state)

\* A player has won a match and the room was reset: a session is in the lobby
\* with the winner's point on the scoreboard, and the snapshot of the reset is
\* on its way.
C23_Witness ==
    /\ budget <= MaxSteps - 2
    /\ \E p \in Ids :
           /\ app[p].roomStatus = "lobby"
           /\ app[p].gameState.statusMessage = "nextRound"
           /\ app[p].gameState.scores["black"] = 1
           /\ \E q \in Ids :
                  /\ chan[p][q] # << >>
                  /\ SnapshotOf(<< chan[p][q][Len(chan[p][q])] >>, app[p])

\* C24: a session that is not the host of the room it holds -- the guest, a
\* spectator, a joiner that has not heard of the host, a session with no room --
\* keeps its state and sends nothing when a join-request or a state-request
\* arrives, whoever sent it; the host answers a join-request with a snapshot,
\* and a state-request with one snapshot of the state it holds, which it keeps.
C24_OnlyHostAnswers ==
    \A p \in Ids : \A q \in Ids \ {p} : \A name \in Names :
        LET s        == app[p]
            join     == handleJoinRequest(p, s, [playerId |-> q, name |-> name])
            stateReq == handleStateRequest(p, s, [playerId |-> q])
        IN  IF s.hostPlayer.id = p
            THEN /\ join.out # << >>
                 /\ stateReq.state = s
                 /\ SnapshotOf(stateReq.out, s)
            ELSE /\ join = Result(s, << >>)
                 /\ stateReq = Result(s, << >>)

\* The requests of a joiner have reached the seated guest, with the
\* join-request next to be handled, and the host, with the state-request next.
C24_Witness ==
    \E q \in Ids :
        /\ \E p \in Ids \ {q} :
               /\ app[p].guestPlayer.id = p
               /\ chan[q][p] # << >>
               /\ Head(chan[q][p]).type = "join-request"
        /\ \E p \in Ids \ {q} :
               /\ app[p].hostPlayer.id = p
               /\ chan[q][p] # << >>
               /\ Head(chan[q][p]).type = "state-request"

\* C25: a session that holds the room holds one host, of role host and with a
\* colour, and every session that holds a host holds the same one; the guest
\* it holds, if any, is another identity, of role guest, and has the colour
\* the host has not.  A session that has asked to join and has no snapshot yet
\* holds neither host nor guest.
C25_OneHostOneGuest ==
    \A p \in Ids :
        app[p].roomStatus # "idle" =>
            LET host  == app[p].hostPlayer
                guest == app[p].guestPlayer
            IN  IF host = NoPlayer
                THEN guest = NoPlayer
                ELSE /\ host.role = "host"
                     /\ host.id \in Ids
                     /\ host.color \in Player
                     /\ \A q \in Ids : app[q].hostPlayer # NoPlayer =>
                                           app[q].hostPlayer.id = host.id
                     /\ guest # NoPlayer =>
                            /\ guest.role = "guest"
                            /\ guest.id \in Ids \ {host.id}
                            /\ guest.color = OTHER_PLAYER(host.color)

\* The host chose white and has seated a guest, who has received the snapshot
\* and holds itself as the black guest of that host.
C25_Witness ==
    \E p \in Ids : \E q \in Ids \ {p} :
        /\ app[p].hostPlayer.id = p
        /\ app[p].hostPlayer.color = "white"
        /\ app[q].hostPlayer.id = p
        /\ app[q].guestPlayer.id = q
        /\ app[q].guestPlayer.color = "black"

C27_ArmedClickIsNoMove ==
    \A p \in Ids :
        MayTarget(p) =>
            \A cell \in ClickCells :
                LET g    == app[p].gameState
                    r    == handleCellClick(p, app[p], cell[1], cell[2])
                    next == r.state.gameState
                IN  /\ next.board[cell[1]][cell[2]] = NULL
                       \/ (r.out = << >> /\ next.board = g.board)
                    /\ \A x \in Idx : \A y \in Idx :
                           next.board[x][y] \in {NULL, g.board[x][y]}
                    /\ Len(next.history) <= Len(g.history)
                    /\ \A i \in 1 .. Len(next.history) :
                           \E j \in i .. Len(g.history) : g.history[j] = next.history[i]
                    /\ next.currentPlayer = g.currentPlayer
                    /\ r.state.roomStatus = app[p].roomStatus

\* Black armed the sandstorm and clicked the empty corner cell: the stones next
\* to the corner are gone, the corner is still empty and black is still to move.
C27_Witness ==
    \E p \in Ids :
        /\ app[p].gameState.statusMessage = "sandstormDone"
        /\ app[p].gameState.currentPlayer = "black"
        /\ app[p].gameState.board[0][0] = NULL
        /\ app[p].gameState.board[0][1] = NULL
        /\ app[p].gameState.board[1][1] = NULL
        /\ app[p].gameState.board[4][4] = "black"
        /\ Len(app[p].gameState.history) = 3

\* C28: once the host holds a seated guest, every step that leaves the host's
\* component in place -- a join-request or state-request handled, a click, a
\* snapshot applied -- leaves a guest of the same identity in the seat.
C28_GuestNeverDisplaced ==
    [][\A p \in Ids :
           ( /\ app[p].hostPlayer.id = p
             /\ app[p].guestPlayer # NoPlayer
             /\ app'[p].hostPlayer.id = p )
           => app'[p].guestPlayer.id = app[p].guestPlayer.id]_vars

\* The host, in a match with its guest, has handled the join-request of
\* another identity: that one is its only spectator, the guest is in its seat
\* and the match goes on.
C28_Witness ==
    \E p \in Ids :
        /\ app[p].hostPlayer.id = p
        /\ app[p].guestPlayer.id = "u2"
        /\ app[p].spectators = << [id |-> "u3", name |-> "Bob"] >>
        /\ app[p].roomStatus = "playing"
        /\ Len(app[p].gameState.history) = 8

\* C29: in no state are the host and the guest both let to place a stone or use
\* a skill, each seeing in its own state the room playing, the match playing
\* and its own colour to move.
C29_OneTurnHolder ==
    \A p \in Ids : \A q \in Ids \ {p} :
        ~ ( /\ app[p].hostPlayer.id = p
            /\ app[q].guestPlayer.id = q
            /\ MayAct(p)
            /\ MayAct(q) )

\* The stones on the board of g are the moves of its history: every entry's
\* cell holds the entry's colour, no two entries name the same cell, and every
\* cell with a stone has an entry.
BoardIsHistory(g) ==
    /\ \A i \in 1 .. Len(g.history) :
           g.board[g.history[i].row][g.history[i].col] = g.history[i].player
    /\ \A i \in 1 .. Len(g.history) : \A j \in 1 .. Len(g.history) :
           ( /\ g.history[i].row = g.history[j].row
             /\ g.history[i].col = g.history[j].col ) => i = j
    /\ \A r \in Idx : \A c \in Idx :
           g.board[r][c] # NULL =>
               \E i \in 1 .. Len(g.history) :
                   g.history[i].row = r /\ g.history[i].col = c

\* C30: in the match every session holds and in every match on its way in a
\* snapshot, the occupied cells are the cells the history records, each with
\* the colour of its entry, and no cell is recorded twice.
C30_BoardMatchesHistory ==
    /\ \A p \in Ids : BoardIsHistory(app[p].gameState)
    /\ \A q \in Ids : \A r \in Ids : \A i \in 1 .. Len(chan[q][r]) :
           chan[q][r][i].type = "snapshot" =>
               BoardIsHistory(chan[q][r][i].payload.game)

\* A sandstorm has taken stones off the board and a mountain one more, and
\* some stones are left.
C30_Witness ==
    \E p \in Ids : \E k \in Player :
        /\ app[p].gameState.skillUses[k]["sandstorm"] = 0
        /\ \E j \in Player : app[p].gameState.skillUses[j]["mountain"] = 0
        /\ app[p].gameState.history # << >>

\* Somewhere on the board five cells in a line hold player's stones.
HasFive(board, player) ==
    \E r \in Idx : \E c \in Idx :
        /\ board[r][c] = player
        /\ \E d \in { <<1, 0>>, <<0, 1>>, <<1, 1>>, <<1, -1>> } :
               \A j \in 1 .. 4 :
                   /\ r + j * d[1] \in Idx
                   /\ c + j * d[2] \in Idx
                   /\ board[r + j * d[1]][c + j * d[2]] = player

\* Status, winner and board of the match g fit together.
StatusFitsBoard(g) ==
    /\ g.status = "playing" => \A k \in Player : ~HasFive(g.board, k)
    /\ g.status = "won" => g.winner \in Player /\ HasFive(g.board, g.winner)
    /\ g.winner # NULL => g.status = "won"

\* C31: in the match every session holds and in every match on its way in a
\* snapshot, a playing match has no five in a line of either colour, a won
\* match has a winner whose colour has five in a line, and only a won match
\* has a winner.
C31_StatusFitsBoard ==
    /\ \A p \in Ids : StatusFitsBoard(app[p].gameState)
    /\ \A q \in Ids : \A r \in Ids : \A i \in 1 .. Len(chan[q][r]) :
           chan[q][r][i].type = "snapshot" =>
               StatusFitsBoard(chan[q][r][i].payload.game)

\* Black took white's last stone off with the mountain and then completed its
\* five: the match is won by black at a session.
C31_Witness ==
    \E p \in Ids :
        /\ app[p].gameState.status = "won"
        /\ app[p].gameState.winner = "black"
        /\ app[p].gameState.skillUses["black"]["mountain"] = 0
        /\ HasFive(app[p].gameState.board, "black")

\* Room status and match status fit together: a finished room holds a won or
\* drawn match, and a won or drawn match is not in a playing room.
RoomFitsMatch(roomStatus, g) ==
    /\ roomStatus = "finished" => g.status \in {"won", "draw"}
    /\ g.status \in {"won", "draw"} => roomStatus # "playing"

\* C32: in the state of every session and in every snapshot on its way, a
\* finished room holds a won or drawn match and a won or drawn match is not in
\* a playing room.
C32_RoomFitsMatch ==
    /\ \A p \in Ids : RoomFitsMatch(app[p].roomStatus, app[p].gameState)
    /\ \A q \in Ids : \A r \in Ids : \A i \in 1 .. Len(chan[q][r]) :
           chan[q][r][i].type = "snapshot" =>
               RoomFitsMatch(chan[q][r][i].payload.room.status,
                             chan[q][r][i].payload.game)

\* The last cell was filled without five in a line: a session holds a finished
\* room with a drawn match and the snapshot of it is on its way.
C32_Witness ==
    \E p \in Ids : \E q \in Ids :
        /\ app[p].roomStatus = "finished"
        /\ app[p].gameState.status = "draw"
        /\ chan[p][q] # << >>
        /\ Head(chan[p][q]).type = "snapshot"
        /\ Head(chan[p][q]).payload.room.status = "finished"
        /\ Head(chan[p][q]).payload.game.status = "draw"

\* Host and guest are not both ready, and in a playing room neither is.
ReadyConsumed(host, guest, roomStatus) ==
    /\ ~(host.ready /\ guest.ready)
    /\ roomStatus = "playing" => ~host.ready /\ ~guest.ready

\* C33: in the state of every session and in every snapshot on its way, host
\* and guest are not both ready, and when the room is playing neither is.
C33_ReadyConsumed ==
    /\ \A p \in Ids :
           ReadyConsumed(app[p].hostPlayer, app[p].guestPlayer, app[p].roomStatus)
    /\ \A q \in Ids : \A r \in Ids : \A i \in 1 .. Len(chan[q][r]) :
           chan[q][r][i].type = "snapshot" =>
               ReadyConsumed(chan[q][r][i].payload.players.host,
                             chan[q][r][i].payload.players.guest,
                             chan[q][r][i].payload.room.status)

\* The second ready click has started the match at one session, while another
\* still holds the lobby with one player ready.
C33_Witness ==
    \E p \in Ids : \E q \in Ids \ {p} :
        /\ app[p].roomStatus = "playing"
        /\ app[p].gameState.statusMessage = "blackStarts"
        /\ app[q].roomStatus = "lobby"
        /\ app[q].hostPlayer.ready # app[q].guestPlayer.ready

\* C34: a ready toggle by a session whose room is playing and whose match is
\* playing returns the state as it is -- ready flags, room status, match and
\* all -- and sends nothing.
C34_ReadyToggleWhilePlaying ==
    \A p \in Ids :
        (app[p].roomStatus = "playing" /\ app[p].gameState.status = "playing")
            => toggleReady(p, app[p]) = Result(app[p], << >>)

\* A match is in progress at a seated player: stones have been placed in it
\* since the behaviour began and the next move is awaited.
C34_Witness ==
    \E p \in Ids :
        /\ IsSeated(p)
        /\ app[p].roomStatus = "playing"
        /\ app[p].gameState.status = "playing"
        /\ app[p].gameState.statusMessage = "moveNext"
        /\ budget < MaxSteps

\* The handler result h of a state s published nothing and changed at most the
\* narration of the match of s.
LocalOnly(s, h) ==
    /\ h.out = << >>
    /\ h.state = [s EXCEPT !.gameState = h.state.gameState]
    /\ OnlyNarration(s.gameState, h.state.gameState)

\* The handler result h published one snapshot, the state the handler left.
PublishedOnce(h) == SnapshotOf(h.out, h.state)

\* The mountain of colour undoes a stone in match g: a use is left and the
\* last stone placed is the opponent's.
MountainApplies(g, colour) ==
    /\ g.skillUses[colour]["mountain"] > 0
    /\ Len(g.history) > 0
    /\ g.history[Len(g.history)].player # colour

\* The rewind of colour undoes a pair in match g: a use is left, the last
\* stone is the opponent's and the one before it colour's own.
RewindApplies(g, colour) ==
    /\ g.skillUses[colour]["rewind"] > 0
    /\ Len(g.history) >= 2
    /\ g.history[Len(g.history)].player # colour
    /\ g.history[Len(g.history) - 1].player = colour

\* C35: a refused action stays local and an accepted one is published once.
\* For a session that may act, a click on an occupied cell, a sandstorm aimed
\* at a square with no stone or with no use left, a mountain and a rewind
\* that find nothing to undo send no message and change the narration only;
\* a stone placed, a sandstorm, mountain or rewind applied, the arming and the
\* cancelling of the sandstorm, a ready toggle of a seated player outside a
\* running match, a reset, and a join request handled by the host each send
\* exactly one snapshot, and that snapshot is the state the handler left.
C35_FailedActionsStayLocal ==
    \A p \in Ids :
        LET s      == app[p]
            g      == s.gameState
            colour == localPlayer(p, s).color
        IN  /\ MayPlace(p) =>
                \A cell \in ClickCells :
                    LET h == handleCellClick(p, s, cell[1], cell[2])
                    IN  IF g.board[cell[1]][cell[2]] # NULL
                        THEN LocalOnly(s, h) ELSE PublishedOnce(h)
            /\ MayTarget(p) =>
                \A cell \in ClickCells :
                    LET h == handleCellClick(p, s, cell[1], cell[2])
                    IN  IF /\ g.skillUses[colour]["sandstorm"] > 0
                           /\ StoneNear(g.board, cell[1], cell[2])
                        THEN PublishedOnce(h) ELSE LocalOnly(s, h)
            /\ MayAct(p) =>
                /\ PublishedOnce(handleSkillClick(p, s, "sandstorm"))
                /\ IF MountainApplies(g, colour)
                   THEN PublishedOnce(handleSkillClick(p, s, "mountain"))
                   ELSE LocalOnly(s, handleSkillClick(p, s, "mountain"))
                /\ IF RewindApplies(g, colour)
                   THEN PublishedOnce(handleSkillClick(p, s, "rewind"))
                   ELSE LocalOnly(s, handleSkillClick(p, s, "rewind"))
            /\ (IsSeated(p) /\ ~(s.roomStatus = "playing" /\ g.status = "playing")) =>
                PublishedOnce(toggleReady(p, s))
            /\ s.hostPlayer # NoPlayer => PublishedOnce(handleResetGame(p, s))
            /\ s.hostPlayer.id = p =>
                \A q \in Ids \ {p} : \A name \in Names :
                    PublishedOnce(handleJoinRequest(p, s,
                                      [playerId |-> q, name |-> name]))

\* A session has just been refused a mountain, nothing is in flight, and the
\* other seated player still shows the narration of the turn it passed.
C35_Witness ==
    \E p \in Ids : \E q \in Ids \ {p} :
        /\ MayAct(p)
        /\ app[p].gameState.statusMessage = "mountainNoTarget"
        /\ chan = NoMessages
        /\ IsSeated(q)
        /\ app[q].gameState = [app[p].gameState EXCEPT !.statusMessage = "moveNext"]

\* The spectator list of state s names no identity twice and does not name
\* the seated guest.
SpectatorsFit(s) ==
    /\ \A i \in 1 .. Len(s.spectators) : \A j \in 1 .. Len(s.spectators) :
           s.spectators[i].id = s.spectators[j].id => i = j
    /\ \A i \in 1 .. Len(s.spectators) : s.spectators[i].id # s.guestPlayer.id

\* C36: in every state of the host the spectator list names no identity twice
\* and does not name the seated guest, and the host's handling of a join
\* request from any other identity, listed or seated or new, leaves it so.
C36_SpectatorBookkeeping ==
    \A p \in Ids :
        app[p].hostPlayer.id = p =>
            /\ SpectatorsFit(app[p])
            /\ \A q \in Ids \ {p} : \A name \in Names :
                   SpectatorsFit(handleJoinRequest(p, app[p],
                                     [playerId |-> q, name |-> name]).state)

\* The host lists one spectator beside the seated guest, and the session of
\* that spectator has been reloaded: its entry stays for its return.
C36_Witness ==
    \E p \in Ids :
        /\ app[p].hostPlayer.id = p
        /\ app[p].guestPlayer.id = "u2"
        /\ Len(app[p].spectators) = 1
        /\ app[p].spectators[1].id = "u3"
        /\ app["u3"] = InitialApp

\* A session in state s holds the room: it is in it and knows the host.
HoldsRoom(s) == s.roomStatus # "idle" /\ s.hostPlayer # NoPlayer

\* C37: across every step in which a session holds the room before and after,
\* no colour's score in that session's state is lower than it was, and a score
\* that is higher is higher by one, the match of the new state being won by
\* that colour.
C37_ScoresNeverDecrease ==
    [][\A p \in Ids :
           (HoldsRoom(app[p]) /\ HoldsRoom(app'[p])) =>
               \A colour \in Player :
                   LET before == app[p].gameState.scores[colour]
                       after  == app'[p].gameState.scores[colour]
                   IN  /\ after >= before
                       /\ after > before =>
                              /\ after = before + 1
                              /\ app'[p].gameState.status = "won"
                              /\ app'[p].gameState.winner = colour]_vars

====
